---- MODULE Spec2Model ----
(***************************************************************************)
(* A model of the Atlas management scripts: the request wrappers with      *)
(* their retry loops, the paginated fetchers, and the batch loops with     *)
(* their success / failure accounting.                                     *)
(***************************************************************************)
EXTENDS Integers, Sequences, FiniteSets, TLC

\* ------------------------------------------------------------------------
\* Bounds of the model
\* ------------------------------------------------------------------------

\* Longest e-mail list handed to invite_users_to_org.
MaxEmails == 2

\* Most times a script is run on the same input.
MaxRuns == 2

\* Most clusters of one project.
MaxClusters == 1

\* Most requests of one provisioning run that the API fails.
MaxFaults == 3

\* Most items a list endpoint holds, and most pages it splits them over.
MaxItems == 3
MaxServerPages == 3
MaxProjects == 2

\* Calls made of an AtlasOwnershipTracker.
MaxCalls == 3

\* Largest retry argument of a call of _make_request made on its own.
MaxRetry == 2

\* ------------------------------------------------------------------------
\* HTTP outcomes of one requests.request(...) call
\* ------------------------------------------------------------------------

\* Status classes the scripts distinguish: 2xx, 404 (other 4xx), 409, 429, 5xx.
Statuses == {200, 201, 202, 204, 404, 409, 429, 500}

\* The Retry-After header of a response: absent, a number of seconds in
\* decimal, or an HTTP-date (which int() does not parse).
RetryAfterHeaders == {"absent", "0", "5", "http-date"}

\* What a 409 body says: the resource already exists, or some other conflict.
ConflictBodies == {"already_exists", "other_conflict"}

MkResponse(kind, status, retry_after, body) ==
    [kind |-> kind, status |-> status, retry_after |-> retry_after, body |-> body]

\* requests.request returned a response object.
ReturnedResponses ==
    { MkResponse("response", s, "absent", "plain") : s \in Statuses \ {409, 429} }
    \cup { MkResponse("response", 409, "absent", b) : b \in ConflictBodies }
    \cup { MkResponse("response", 429, h, "plain") : h \in RetryAfterHeaders }

\* requests.request raised; status 0 stands for an exception that carries no
\* response (connection error, timeout), any other status for e.response.
RaisedStatuses == {0, 404, 409, 429, 500}

RaisedOutcomes ==
    { MkResponse(k, s, "absent", "plain") :
        k \in {"HTTPError", "RequestException"}, s \in RaisedStatuses }
    \cup { MkResponse(k, 429, "5", "plain") : k \in {"HTTPError", "RequestException"} }

Outcomes == ReturnedResponses \cup RaisedOutcomes

\* Values a wrapper hands back besides a response: None, or an exception that
\* escapes the wrapper.
NoneValue == MkResponse("None", 0, "absent", "plain")
RaisedValue == MkResponse("raised", 0, "absent", "plain")
Pending == MkResponse("pending", 0, "absent", "plain")

\* Response.raise_for_status raises HTTPError for 4xx and 5xx.
RaisesForStatus(status) == status >= 400 /\ status < 600

Is2xx(status) == status >= 200 /\ status < 300

\* int(header): defined on decimal literals, ValueError otherwise.
IsIntLiteral(h) == h \in {"0", "5"}
IntOf(h) == IF h = "0" THEN 0 ELSE 5

\* ------------------------------------------------------------------------
\* invite_users_to_organization.make_atlas_api_request
\* ------------------------------------------------------------------------

max_retries_OneFewer == 3 - 1
max_retries == 3

backoff_delays_Linear == <<1, 2, 3>>
backoff_delays == <<1, 2, 4>>

\* What one pass of the retry loop decides.
Return(value) == [act |-> "return", value |-> value, wait |-> 0]
Retry(wait_time) == [act |-> "retry", value |-> Pending, wait |-> wait_time]
Raise == [act |-> "raise", value |-> RaisedValue, wait |-> 0]

\* except requests.exceptions.HTTPError (backoff_delays is 0-indexed in the
\* source, 1-indexed here).
OnHTTPError_RetriesAnyStatus(e, attempt) ==
    IF e.status = 409 THEN Return([e EXCEPT !.kind = "response"])
    ELSE IF e.status # 0 /\ attempt < max_retries
         THEN Retry(backoff_delays[attempt + 1])
         ELSE Return(NoneValue)

OnHTTPError(e, attempt) ==
    IF e.status # 0 /\ e.status = 409 THEN Return([e EXCEPT !.kind = "response"])
    ELSE IF e.status # 0 /\ e.status = 429 /\ attempt < max_retries
         THEN Retry(backoff_delays[attempt + 1])
         ELSE Return(NoneValue)

\* except requests.exceptions.RequestException
OnRequestException(e, attempt) ==
    IF e.status # 0 /\ e.status = 409 THEN Return([e EXCEPT !.kind = "response"])
    ELSE IF e.status # 0 /\ e.status = 429 /\ attempt < max_retries
         THEN Retry(backoff_delays[attempt + 1])
         ELSE Return(NoneValue)

\* The rate-limit branch taken when a returned response has status 429.
OnRateLimited_IgnoresHeader(response, attempt) ==
    IF attempt < max_retries
    THEN Retry(backoff_delays[attempt + 1])
    ELSE Return(NoneValue)

OnRateLimited_NoLastAttemptCheck(response, attempt) ==
    IF response.retry_after # "absent"
    THEN IF IsIntLiteral(response.retry_after)
         THEN Retry(IntOf(response.retry_after))
         ELSE Raise
    ELSE Retry(backoff_delays[IF attempt < max_retries THEN attempt + 1 ELSE max_retries])

OnRateLimited(response, attempt) ==
    IF attempt < max_retries
    THEN IF response.retry_after # "absent"
         THEN IF IsIntLiteral(response.retry_after)
              THEN Retry(IntOf(response.retry_after))
              ELSE Raise
         ELSE Retry(backoff_delays[attempt + 1])
    ELSE Return(NoneValue)

\* The try block: 409 first, then 429, then raise_for_status.
OnResponse(response, attempt) ==
    IF response.status = 409 THEN Return(response)
    ELSE IF response.status = 429 THEN OnRateLimited(response, attempt)
    ELSE IF RaisesForStatus(response.status)
         THEN OnHTTPError([response EXCEPT !.kind = "HTTPError"], attempt)
         ELSE Return(response)

\* One pass of "for attempt in range(max_retries + 1)".
Classify(o, attempt) ==
    CASE o.kind = "response" -> OnResponse(o, attempt)
      [] o.kind = "HTTPError" -> OnHTTPError(o, attempt)
      [] OTHER -> OnRequestException(o, attempt)

VARIABLES
    rqpc,       \* position in make_atlas_api_request: "idle", "try", "returned"
    attempt,    \* the loop variable
    sleeps,     \* the time.sleep durations of this call, in order
    resps,      \* what requests.request produced in this call, in order
    result      \* the value returned (Pending while the call runs)

rqVars == <<rqpc, attempt, sleeps, resps, result>>

VARIABLES
    fetcher,        \* the paginated fetcher that runs ("none" when none does)
    pages,          \* the list endpoint: its pages, in order
    current_page,   \* pageNum of the next request
    all_items,      \* the items accumulated so far
    fpc,            \* position in the fetcher: "idle", "loop", "returned", "raised"
    reqLog,         \* pageNum of every HTTP request issued, in order
    faults,         \* number of requests that did not get a 2xx answer with a body
    http_attempt,   \* loop variable of AtlasAPI._make_request (delete-empty script)
    retry_arg       \* the retry argument of a call of that _make_request made on its own

fetchVars == <<fetcher, pages, current_page, all_items, fpc, reqLog, faults, http_attempt,
               retry_arg>>

VARIABLES
    pc,             \* position in the running script
    org_id,         \* ATLAS_ORG_ID
    confirm,        \* the answer read at the confirmation prompt
    ret,            \* what the batch function returned: "unset", "True", "False"
    exit_status,    \* what main returned (-1 while it runs)
    loop_ran,       \* the batch function reached its item loop
    runs            \* how many times the script has been started

scriptVars == <<pc, org_id, confirm, ret, exit_status, loop_ran, runs>>

VARIABLES
    emails,             \* EMAILS_TO_PROVISION
    existing_users,     \* the set get_existing_org_users builds
    idx,                \* position of the loop variable email in emails
    successful_invites,
    failed_invites,
    skipped_existing,
    handled,            \* for each e-mail processed in this run, how it ended
    events              \* the invitation POSTs and rate-limit delays, in order

inviteVars == <<emails, existing_users, idx, successful_invites, failed_invites,
                skipped_existing, handled, events>>

VARIABLES
    ppc,                   \* position in provision_for_emails / _provision_for_email
    total_requests,        \* AtlasAPI.total_requests
    successful_requests,   \* AtlasAPI.successful_requests
    failed_requests,       \* len(AtlasAPI.failed_requests)
    operation_results,     \* AtlasProvisioner.operation_results["provision"]
    ownership_map,         \* AtlasOwnershipTracker.ownership_map: email -> project id, 0 if none
    existing_project_map,  \* the project ids of existing_project_map.values()
    unique_emails,         \* list(set(emails))
    email_pos,             \* position of the for loop in unique_emails
    project_id             \* project_id of _provision_for_email, 0 for None

VARIABLES
    ownership_file,   \* what the file at AtlasOwnershipTracker.file_path holds
    tracker_call,     \* the last call of add_project / remove_project and what it returned
    tracker_calls,    \* how many calls of the tracker were made directly
    delete_results    \* AtlasProvisioner.operation_results["delete_projects"]

trackerVars == <<ownership_file, tracker_call, tracker_calls, delete_results>>

provVars == <<ppc, total_requests, successful_requests, failed_requests, operation_results,
              ownership_map, existing_project_map, unique_emails, email_pos, project_id,
              trackerVars>>

VARIABLES
    script,                  \* which script's main is running
    projects,                \* projects of delete_all_clusters_in_org / pause_all_clusters_in_org
    project_pos,             \* position of "for project in projects"
    clusters,                \* clusters of the current project
    cluster_pos,             \* position of "for cluster in clusters"
    total_clusters_deleted,
    total_clusters_paused,
    total_already_paused,
    total_failures

clusterVars == <<script, projects, project_pos, clusters, cluster_pos, total_clusters_deleted,
                 total_clusters_paused, total_already_paused, total_failures>>

VARIABLES
    api_log,            \* every API request issued by a script's main, in order
    total_processed,    \* cleanup script: projects whose creation date was read
    total_cleaned,      \* cleanup script: projects older than 90 days
    total_errors,       \* cleanup script: projects skipped for bad data
    old_project_ids,    \* cleanup script: ids of the projects older than 90 days
    org_invitations,    \* cleanup script: the pending invitations of the organization
    successful_inv,     \* delete_invitations_for_old_projects: invitations deleted
    failed_inv,         \* delete_invitations_for_old_projects: invitations not deleted
    dry_run,            \* delete-empty script: --dry-run
    deleted_projects,   \* AtlasEmptyProjectsCleaner.deleted_projects
    skipped_projects    \* AtlasEmptyProjectsCleaner.skipped_projects

reaperVars == <<total_processed, total_cleaned, total_errors, old_project_ids,
                org_invitations, successful_inv, failed_inv>>

cleanerVars == <<dry_run, deleted_projects, skipped_projects>>

cleanVars == <<api_log, reaperVars, cleanerVars>>

vars == <<rqVars, fetchVars, scriptVars, inviteVars, provVars, clusterVars, cleanVars>>

\* One request of a script: its method, the resource it addresses, the id of
\* the project concerned (0 for a request on the organization) and the name
\* or id of the item in its URL ("" for a listing).
Call(method, resource, project, item) ==
    [method |-> method, resource |-> resource, project |-> project, item |-> item]

\* The request is issued.
Log(call) == api_log' = Append(api_log, call)

\* No script-level state takes part in the run.
NoScript ==
    /\ pc = "none"
    /\ org_id = "org"
    /\ confirm = ""
    /\ ret = "unset"
    /\ exit_status = -1
    /\ loop_ran = FALSE
    /\ runs = 0

NoInvite ==
    /\ emails = <<>>
    /\ existing_users = {}
    /\ idx = 0
    /\ successful_invites = 0
    /\ failed_invites = 0
    /\ skipped_existing = 0
    /\ handled = <<>>
    /\ events = <<>>

\* The provisioning script takes no part in the run.
\* A file: absent, holding the JSON text of a mapping, or holding text that
\* json.load rejects; writable tells whether open(file_path, "w") succeeds.
MkFile(state, map, writable) == [state |-> state, map |-> map, writable |-> writable]

NoCall == [op |-> "none", email |-> "", id |-> 0, returned |-> "None"]

NoResults == [success |-> 0, failed |-> 0, failed_emails |-> <<>>]

\* No call of the tracker was made and no project deletion was counted.
NoTracker ==
    /\ ownership_file = MkFile("absent", <<>>, TRUE)
    /\ tracker_call = NoCall
    /\ tracker_calls = 0
    /\ delete_results = NoResults

NoProvision ==
    /\ ppc = "none"
    /\ total_requests = 0
    /\ successful_requests = 0
    /\ failed_requests = 0
    /\ operation_results = [success |-> 0, failed |-> 0, failed_emails |-> <<>>]
    /\ ownership_map = <<>>
    /\ existing_project_map = {}
    /\ unique_emails = <<>>
    /\ email_pos = 0
    /\ project_id = 0
    /\ NoTracker

\* Neither the cleanup script nor the delete-empty script takes part in the
\* run, and no request of a script's main has been logged.
NoClean ==
    /\ api_log = <<>>
    /\ total_processed = 0
    /\ total_cleaned = 0
    /\ total_errors = 0
    /\ old_project_ids = {}
    /\ org_invitations = <<>>
    /\ successful_inv = 0
    /\ failed_inv = 0
    /\ dry_run = FALSE
    /\ deleted_projects = <<>>
    /\ skipped_projects = <<>>

\* No loop over projects and clusters has begun.
NoClusterRun ==
    /\ projects = <<>>
    /\ project_pos = 0
    /\ clusters = <<>>
    /\ cluster_pos = 0
    /\ total_clusters_deleted = 0
    /\ total_clusters_paused = 0
    /\ total_already_paused = 0
    /\ total_failures = 0

\* No script's main takes part in the run.
NoClusters == script = "none" /\ NoClusterRun

\* No paginated fetcher takes part in the run.
NoFetch ==
    /\ fetcher = "none"
    /\ pages = <<>>
    /\ current_page = 0
    /\ all_items = <<>>
    /\ fpc = "idle"
    /\ reqLog = <<>>
    /\ faults = 0
    /\ http_attempt = 0
    /\ retry_arg = 0

\* No call of the invite script's make_atlas_api_request takes part in the run.
NoRequest ==
    /\ rqpc = "idle"
    /\ attempt = 0
    /\ sleeps = <<>>
    /\ resps = <<>>
    /\ result = Pending

\* A call of make_atlas_api_request begins.
CallRequest ==
    /\ rqpc' = "try"
    /\ attempt' = 0
    /\ sleeps' = <<>>
    /\ resps' = <<>>
    /\ result' = Pending

\* One pass of the loop on outcome o of requests.request.
RequestPass(o) ==
    LET d == Classify(o, attempt) IN
    /\ rqpc = "try"
    /\ attempt <= max_retries
    /\ resps' = Append(resps, o)
    /\ IF d.act = "retry"
       THEN /\ sleeps' = Append(sleeps, d.wait)
            /\ attempt' = attempt + 1
            /\ rqpc' = "try"
            /\ result' = result
       ELSE /\ sleeps' = sleeps
            /\ attempt' = attempt
            /\ rqpc' = "returned"
            /\ result' = d.value

\* --- the wrapper alone, called once with any sequence of outcomes
InitRequest ==
    /\ rqpc = "try"
    /\ attempt = 0
    /\ sleeps = <<>>
    /\ resps = <<>>
    /\ result = Pending
    /\ NoFetch
    /\ NoScript
    /\ NoInvite
    /\ NoProvision
    /\ NoClean
    /\ NoClusters

AttemptRequest ==
    \E o \in Outcomes :
        RequestPass(o) /\ UNCHANGED <<fetchVars, scriptVars, inviteVars, provVars, cleanVars, clusterVars>>

NextRequest == AttemptRequest

SpecRequest == InitRequest /\ [][NextRequest]_vars

\* ------------------------------------------------------------------------
\* Properties of make_atlas_api_request (invite script), under SpecRequest
\* ------------------------------------------------------------------------

\* A 429 that carries no Retry-After header, returned or raised.
Plain429(o) == o.status = 429 /\ o.retry_after = "absent"

\* A failure that is neither a conflict nor a rate limit: a connection error
\* or timeout (no response), or a 4xx/5xx status other than 409 and 429.
HardFailure(o) ==
    /\ o.status \notin {409, 429}
    /\ ~(o.kind = "response" /\ ~RaisesForStatus(o.status))

AllBefore(n, P(_)) == \A i \in 1..(n - 1) : P(resps[i])

\* C2: k <= 3 consecutive 429 responses without Retry-After followed by a 2xx
\* response: the sleeps are backoff_delays[0..k-1] in order, one before each
\* retry, no request follows the 2xx response (k+1 requests in all) and the
\* 2xx response is returned.
C2_ExponentialBackoff ==
    /\ (\A i \in 1..Len(resps) : Plain429(resps[i]))
          => /\ Len(resps) <= max_retries + 1
             /\ sleeps = SubSeq(<<1, 2, 4>>, 1, Len(sleeps))
             /\ (rqpc = "try" => Len(sleeps) = Len(resps))
    /\ ( /\ Len(resps) >= 1
         /\ resps[Len(resps)].kind = "response"
         /\ Is2xx(resps[Len(resps)].status)
         /\ AllBefore(Len(resps), Plain429) )
          => /\ rqpc = "returned"
             /\ result = resps[Len(resps)]
             /\ sleeps = SubSeq(<<1, 2, 4>>, 1, Len(resps) - 1)

C2_Witness ==
    /\ rqpc = "returned"
    /\ Len(resps) = 3
    /\ Plain429(resps[1]) /\ Plain429(resps[2])
    /\ resps[3].kind = "response" /\ resps[3].status = 200
    /\ sleeps = <<1, 2>>
    /\ result.status = 200

\* C3: a 429 that carries Retry-After: s while retries remain is followed by a
\* sleep of exactly s seconds, on whichever attempt and whether the 429 was
\* returned or carried by an exception.
C3_RetryAfterHonoured ==
    \A i \in 1..Len(resps) :
        ( /\ resps[i].status = 429
          /\ IsIntLiteral(resps[i].retry_after)
          /\ i <= max_retries )
          => /\ Len(sleeps) >= i
             /\ sleeps[i] = IntOf(resps[i].retry_after)

\* C4 as stated: only 429 responses give exactly max_retries + 1 = 4
\* requests, the sleeps 1, 2, 4 and None; never more than 4 requests.
C4_AllRateLimited_AsStated ==
    /\ Len(resps) <= max_retries + 1
    /\ (rqpc = "returned" /\ \A i \in 1..Len(resps) : resps[i].status = 429)
          => /\ Len(resps) = max_retries + 1
             /\ sleeps = <<1, 2, 4>>
             /\ result = NoneValue

\* C4 (amended): only 429 responses without a Retry-After header give exactly
\* 4 requests, the sleeps 1, 2, 4 and then None; and whatever the outcomes, a
\* call never issues more than 4 requests.
C4_AllRateLimited ==
    /\ Len(resps) <= max_retries + 1
    /\ (\A i \in 1..Len(resps) : Plain429(resps[i]))
          => /\ (rqpc = "returned" <=> Len(resps) = 4)
             /\ (rqpc = "returned" => sleeps = <<1, 2, 4>> /\ result = NoneValue)

C4_Witness ==
    /\ rqpc = "returned"
    /\ Len(resps) = 4
    /\ \A i \in 1..4 : Plain429(resps[i])
    /\ sleeps = <<1, 2, 4>>
    /\ result = NoneValue

\* C5: a connection error, a timeout or an error status other than 409 and
\* 429 ends the call at once: it is the last request, no sleep follows it and
\* None is returned; as the first outcome it leaves one request and no sleep.
C5_NoRetryOnHardFailure ==
    \A i \in 1..Len(resps) :
        HardFailure(resps[i])
          => /\ i = Len(resps)
             /\ rqpc = "returned"
             /\ result = NoneValue
             /\ Len(sleeps) = i - 1
             /\ \A j \in 1..(i - 1) : resps[j].status = 429

C5_Witness ==
    /\ rqpc = "returned"
    /\ Len(resps) = 2
    /\ resps[1].status = 429
    /\ resps[2].kind = "response" /\ resps[2].status = 500
    /\ Len(sleeps) = 1
    /\ result = NoneValue

\* ------------------------------------------------------------------------
\* The list endpoint and the paginated fetchers
\* ------------------------------------------------------------------------

\* "max_pages = 100  # Safety limit" of every fetcher.
max_pages_OneMore == 100 + 1

max_pages == 100

\* retry=2 of the page request in AtlasAPI.get_projects_in_org.
page_retry == 2

\* A JSON payload is the envelope {"results": [...], "links": [...]} or a bare
\* array. (An envelope without the "results" key behaves as one whose
\* "results" is empty in every fetcher, so it is not told apart.)
Shapes == {"envelope", "list"}

MkPage(shape, items, next) == [shape |-> shape, items |-> items, next |-> next]

EmptyPage == MkPage("envelope", <<>>, FALSE)

\* The None a wrapper returns in place of a payload.
NonePage == MkPage("None", <<>>, FALSE)

\* An endpoint that answers every pageNum with the same non-empty page and a
\* "next" link (a listing that never ends).
EndlessEndpoint(items) == << MkPage("endless", items, TRUE) >>

IsEndless(endpoint) == Len(endpoint) = 1 /\ endpoint[1].shape = "endless"

\* What the endpoint serves for pageNum = n.
ServerPage(n) ==
    IF IsEndless(pages) THEN MkPage("envelope", pages[1].items, TRUE)
    ELSE IF n \in 1..Len(pages) THEN pages[n] ELSE EmptyPage

\* Outcomes of one page GET: the page is served, or the request fails.
GetOutcomes ==
    { MkResponse("response", s, "absent", "plain") : s \in {200, 404, 500} }
    \cup { MkResponse("RequestException", 0, "absent", "plain") }

Failed(o) == ~(o.kind = "response" /\ ~RaisesForStatus(o.status))

\* The answers an endpoint gives to a page GET: the listing that never ends
\* serves its page every time, any other endpoint may also fail.
AnswersOf(endpoint, outcomes) ==
    IF IsEndless(endpoint)
    THEN { MkResponse("response", 200, "absent", "plain") }
    ELSE outcomes

\* any(link.get("rel") == "next" for link in data.get("links", []))
HasNextLink_Never(data) == FALSE

HasNextLink(data) == data.next

\* all_items.extend(...)
extend_Replaces(items, more) == more

extend(items, more) == items \o more

\* cleanup script: make_atlas_api_request returns response.json(), or None for
\* a 204 and for every failure.
cleanup_make_atlas_api_request(o, body) ==
    IF Failed(o) THEN NonePage
    ELSE IF o.status = 204 THEN NonePage
    ELSE body

\* delete-all-clusters script: make_atlas_api_request returns the response, or
\* None when requests raised or raise_for_status did.
delete_all_make_atlas_api_request(o) ==
    IF Failed(o) THEN NoneValue ELSE o

\* "if not response": None, or a Response whose ok is false.
Falsy(response) == response = NoneValue \/ RaisesForStatus(response.status)

\* The fetcher leaves its loop and returns all_items.
Break ==
    /\ fpc' = "returned"
    /\ UNCHANGED current_page

\* current_page += 1; if current_page > max_pages: break
NextPage ==
    /\ current_page' = current_page + 1
    /\ fpc' = IF current_page + 1 > max_pages THEN "returned" ELSE "loop"

\* One pass of the loop of get_all_paginated_items (cleanup script).
get_all_paginated_items_pass(o) ==
    LET data == cleanup_make_atlas_api_request(o, ServerPage(current_page)) IN
    /\ fetcher = "get_all_paginated_items"
    /\ fpc = "loop"
    /\ reqLog' = Append(reqLog, current_page)
    /\ faults' = faults + (IF Failed(o) THEN 1 ELSE 0)
    /\ IF data = NonePage
       THEN Break /\ UNCHANGED all_items
       ELSE IF data.items = <<>> \/ data.shape = "list"
            THEN Break /\ UNCHANGED all_items
            ELSE /\ all_items' = extend(all_items, data.items)
                 /\ IF ~HasNextLink(data) THEN Break ELSE NextPage
    /\ UNCHANGED <<retry_arg, fetcher, pages, http_attempt>>

\* One pass of the loop of get_all_paginated_projects (delete-all script).
\* data.get on a bare array raises AttributeError, which nothing catches.
get_all_paginated_projects_pass(o) ==
    LET response == delete_all_make_atlas_api_request(o)
        data == ServerPage(current_page) IN
    /\ fetcher = "get_all_paginated_projects"
    /\ fpc = "loop"
    /\ reqLog' = Append(reqLog, current_page)
    /\ faults' = faults + (IF Failed(o) THEN 1 ELSE 0)
    /\ IF Falsy(response)
       THEN Break /\ UNCHANGED all_items
       ELSE IF data.shape = "list"
            THEN fpc' = "raised" /\ UNCHANGED <<all_items, current_page>>
            ELSE IF data.items = <<>>
                 THEN Break /\ UNCHANGED all_items
                 ELSE /\ all_items' = extend(all_items, data.items)
                      /\ IF ~HasNextLink(data) THEN Break ELSE NextPage
    /\ UNCHANGED <<retry_arg, fetcher, pages, http_attempt>>

\* AtlasAPI.get_projects_in_org (delete-empty script), one HTTP call at a
\* time: _make_request(retry=2) re-issues a failed call after a 2 s sleep and
\* gives up after the third failure.
get_projects_in_org_pass(o) ==
    LET result_ == ServerPage(current_page) IN
    /\ fetcher = "get_projects_in_org"
    /\ fpc = "loop"
    /\ reqLog' = Append(reqLog, current_page)
    /\ faults' = faults + (IF Failed(o) THEN 1 ELSE 0)
    /\ IF Failed(o)
       THEN IF http_attempt < page_retry
            THEN /\ http_attempt' = http_attempt + 1
                 /\ UNCHANGED <<all_items, current_page, fpc>>
            ELSE /\ http_attempt' = 0
                 /\ Break /\ UNCHANGED all_items
       ELSE /\ http_attempt' = 0
            /\ IF result_.shape = "list"
               THEN fpc' = "raised" /\ UNCHANGED <<all_items, current_page>>
               ELSE IF result_.items = <<>>
                    THEN Break /\ UNCHANGED all_items
                    ELSE /\ all_items' = extend(all_items, result_.items)
                         /\ IF ~HasNextLink(result_) THEN Break ELSE NextPage
    /\ UNCHANGED <<retry_arg, fetcher, pages>>

\* --- a fetcher alone, against any small endpoint

\* The items 1..n in order, cut into p pages at the cut points c.
PageItems(n, c, p, i) ==
    SubSeq([k \in 1..n |-> k],
           (IF i = 1 THEN 0 ELSE c[i - 1]) + 1,
           IF i = p THEN n ELSE c[i])

Cuts(n, p) ==
    { c \in [1..(p - 1) -> 0..n] : \A i \in 1..(p - 2) : c[i] <= c[i + 1] }

\* At most one page of an endpoint is a bare array, and the "next" link is on
\* the pages before some page q (on all of them when q = p + 1).
ShapesOf(p) == { [i \in 1..p |-> IF i = l THEN "list" ELSE "envelope"] : l \in 0..p }

NextLinks(p) == { [i \in 1..p |-> i < q] : q \in 1..(p + 1) }

Endpoints ==
    UNION { UNION { { [i \in 1..p |-> MkPage(sh[i], PageItems(n, c, p, i), nx[i])] :
                        c \in Cuts(n, p), sh \in ShapesOf(p), nx \in NextLinks(p) }
                    : p \in 1..MaxServerPages }
            : n \in 0..MaxItems }

Fetchers == {"get_all_paginated_items", "get_all_paginated_projects", "get_projects_in_org"}

InitFetch ==
    /\ fetcher \in Fetchers
    /\ pages \in Endpoints
    /\ current_page = 1
    /\ all_items = <<>>
    /\ fpc = "loop"
    /\ reqLog = <<>>
    /\ faults = 0
    /\ http_attempt = 0
    /\ retry_arg = 0
    /\ NoRequest
    /\ NoScript
    /\ NoInvite
    /\ NoProvision
    /\ NoClean
    /\ NoClusters

CleanupFetchPage ==
    \E o \in AnswersOf(pages, GetOutcomes) :
        get_all_paginated_items_pass(o) /\ UNCHANGED <<rqVars, scriptVars, inviteVars, provVars, cleanVars, clusterVars>>

DeleteAllFetchPage ==
    \E o \in AnswersOf(pages, GetOutcomes) :
        get_all_paginated_projects_pass(o) /\ UNCHANGED <<rqVars, scriptVars, inviteVars, provVars, cleanVars, clusterVars>>

DeleteEmptyFetchPage ==
    \E o \in AnswersOf(pages, GetOutcomes) :
        get_projects_in_org_pass(o) /\ UNCHANGED <<rqVars, scriptVars, inviteVars, provVars, cleanVars, clusterVars>>

\* A fetcher alone, against the listing that never ends.
InitFetchEndless ==
    /\ fetcher \in Fetchers
    /\ pages = EndlessEndpoint(<<1>>)
    /\ current_page = 1
    /\ all_items = <<>>
    /\ fpc = "loop"
    /\ reqLog = <<>>
    /\ faults = 0
    /\ http_attempt = 0
    /\ retry_arg = 0
    /\ NoRequest
    /\ NoScript
    /\ NoInvite
    /\ NoProvision
    /\ NoClean
    /\ NoClusters

NextFetch == CleanupFetchPage \/ DeleteAllFetchPage \/ DeleteEmptyFetchPage

SpecFetch == InitFetch /\ [][NextFetch]_vars

\* ------------------------------------------------------------------------
\* invite_users_to_organization: get_existing_org_users, invite_users_to_org
\* and main
\* ------------------------------------------------------------------------

\* Addresses of the e-mail list: two well-formed ones (one in mixed case) and
\* one the pattern of validate_email rejects.
EmailTokens == {"A@x.io", "b@x.io", "bad"}

\* re.match(r"^[a-zA-Z0-9._%+-]+@[a-zA-Z0-9.-]+\.[a-zA-Z]{2,}$", email)
validate_email(email) == email \in {"A@x.io", "a@x.io", "B@x.io", "b@x.io"}

\* str.lower
Lower(u) ==
    CASE u = "A@x.io" -> "a@x.io"
      [] u = "B@x.io" -> "b@x.io"
      [] OTHER -> u

EmailLists == UNION { [1..n -> EmailTokens] : n \in 0..MaxEmails }

\* The organization's user listing; "" is a user record without "username".
UserEndpoints ==
    { << MkPage("envelope", <<>>, FALSE) >>,
      << MkPage("envelope", <<"a@x.io">>, FALSE) >>,
      << MkPage("envelope", <<"B@x.io">>, TRUE),
         MkPage("envelope", <<"a@x.io", "">>, FALSE) >>,
      << MkPage("list", <<"B@x.io">>, FALSE) >> }

\* existing_users.add(username.lower()) for every user that has a username
UsernamesOf(items) ==
    { Lower(items[i]) : i \in { j \in 1..Len(items) : items[j] # "" } }

\* What is typed at "Proceed with invitations? (y/N): ", and .lower().strip()
Typed == {"y", " Y ", "n"}
LowerStrip(t) == IF t \in {"y", " Y "} THEN "y" ELSE t

\* Outcomes of the HTTP calls of a batch run: every class of return value of
\* make_atlas_api_request, and the retry on a rate limit.
InviteOutcomes ==
    { MkResponse("response", s, "absent", "plain") : s \in {200, 201, 204, 500} }
    \cup { MkResponse("response", 409, "absent", b) : b \in ConflictBodies }
    \cup { MkResponse("response", 429, h, "plain") : h \in {"absent", "http-date"} }
    \cup { MkResponse("RequestException", 0, "absent", "plain") }

\* How the loop of invite_users_to_org counts one e-mail.
Count(successful, failed, skipped) ==
    [successful |-> successful, failed |-> failed, skipped |-> skipped]

\* "Invalid email format": failed_invites += 1
CountInvalid_AsSkipped == Count(0, 0, 1)

CountInvalid == Count(0, 1, 0)

\* "already exists in the organization": successful_invites += 1 and
\* skipped_existing += 1
CountExisting == Count(1, 0, 1)

\* The if / elif chain on the response of the invitation POST.
CountAnswer_ConflictFails(response) ==
    IF response = NoneValue THEN Count(0, 1, 0)
    ELSE IF response.status \in {200, 201} THEN Count(1, 0, 0)
    ELSE Count(0, 1, 0)

CountAnswer(response) ==
    IF response = NoneValue THEN Count(0, 1, 0)
    ELSE IF response.status \in {200, 201} THEN Count(1, 0, 0)
    ELSE IF response.status = 409 THEN Count(1, 0, 0)
    ELSE Count(0, 1, 0)

\* return failed_invites == 0
AllSucceeded_IfAnySucceeded(successes, failures) ==
    IF successes > 0 \/ failures = 0 THEN "True" ELSE "False"

AllSucceeded(successes, failures) == IF failures = 0 THEN "True" ELSE "False"

\* How an e-mail that was not sent to the API ended.
InvalidEmail == MkResponse("invalid", 0, "absent", "plain")
ExistingUser == MkResponse("existing", 0, "absent", "plain")

ResetRequest ==
    /\ rqpc' = "idle"
    /\ attempt' = 0
    /\ sleeps' = <<>>
    /\ resps' = <<>>
    /\ result' = Pending

Tally(c) ==
    /\ successful_invites' = successful_invites + c.successful
    /\ failed_invites' = failed_invites + c.failed
    /\ skipped_existing' = skipped_existing + c.skipped

\* main up to the call of invite_users_to_org: validate_atlas_credentials
\* raises without ATLAS_ORG_ID and invitees.csv may be missing (exit 1), an
\* empty list and an answer other than "y" end the run with 0.
MainInvite ==
    /\ script = "invite_users_to_organization"
    /\ pc = "main"
    /\ \E typed \in Typed, csv_found \in BOOLEAN :
          IF org_id = "" \/ ~csv_found
          THEN /\ exit_status' = 1 /\ pc' = "exit" /\ UNCHANGED confirm
          ELSE IF emails = <<>>
               THEN /\ exit_status' = 0 /\ pc' = "exit" /\ UNCHANGED confirm
               ELSE /\ confirm' = LowerStrip(typed)
                    /\ IF LowerStrip(typed) # "y"
                       THEN exit_status' = 0 /\ pc' = "exit"
                       ELSE pc' = "invite_users_to_org" /\ UNCHANGED exit_status
    /\ UNCHANGED <<org_id, ret, loop_ran, runs, rqVars, fetchVars, inviteVars>>
    /\ UNCHANGED <<provVars, cleanVars, clusterVars>>

\* invite_users_to_org up to the first page request of get_existing_org_users.
InviteEnter ==
    /\ pc = "invite_users_to_org"
    /\ IF org_id = ""
       THEN /\ ret' = "False" /\ pc' = "returned"
            /\ UNCHANGED <<rqVars, fetcher, current_page, fpc, existing_users, reqLog>>
       ELSE IF emails = <<>>
            THEN /\ ret' = "True" /\ pc' = "returned"
                 /\ UNCHANGED <<rqVars, fetcher, current_page, fpc, existing_users, reqLog>>
            ELSE /\ pc' = "get_existing_org_users"
                 /\ fetcher' = "get_existing_org_users"
                 /\ current_page' = 1
                 /\ fpc' = "loop"
                 /\ existing_users' = {}
                 /\ reqLog' = <<1>>
                 /\ CallRequest
                 /\ UNCHANGED ret
    /\ UNCHANGED <<org_id, confirm, exit_status, loop_ran, runs,
                   pages, all_items, faults, http_attempt, retry_arg,
                   emails, idx, successful_invites, failed_invites,
                   skipped_existing, handled, events>>
    /\ UNCHANGED <<provVars, cleanVars, clusterVars>>

\* One pass of the retry loop of make_atlas_api_request, for a page of users
\* or for an invitation. reqLog holds the page numbers asked of
\* make_atlas_api_request, one entry per call.
InviteHttp ==
    /\ pc \in {"get_existing_org_users", "post"}
    /\ \E o \in (IF pc = "post" THEN InviteOutcomes
                ELSE AnswersOf(pages, InviteOutcomes)) : RequestPass(o)
    /\ UNCHANGED <<fetchVars, scriptVars, inviteVars, provVars, cleanVars, clusterVars>>

\* get_existing_org_users returns users; invite_users_to_org sets its
\* counters and enters the loop over emails.
StartLoop(users) ==
    /\ existing_users' = users
    /\ fpc' = "returned"
    /\ pc' = "loop"
    /\ loop_ran' = TRUE
    /\ idx' = 1
    /\ successful_invites' = 0
    /\ failed_invites' = 0
    /\ skipped_existing' = 0
    /\ handled' = <<>>
    /\ events' = <<>>
    /\ ResetRequest
    /\ UNCHANGED <<current_page, reqLog>>

\* The body of "while page <= max_pages" once make_atlas_api_request returned.
\* A 204 has no body: response.json() raises ValueError, which is caught.
ExistingUsersPage ==
    LET response == result
        data == ServerPage(current_page)
        users == existing_users \cup UsernamesOf(data.items) IN
    /\ pc = "get_existing_org_users"
    /\ rqpc = "returned"
    /\ IF response = RaisedValue
       THEN /\ pc' = "raised" /\ fpc' = "raised"
            /\ UNCHANGED <<rqVars, current_page, reqLog, loop_ran, inviteVars>>
       ELSE /\ UNCHANGED emails
            /\ IF Falsy(response) \/ response.status = 204
               THEN StartLoop(existing_users)
               ELSE IF data.shape = "list"
               THEN StartLoop(users)
               ELSE IF data.items = <<>>
               THEN StartLoop(existing_users)
               ELSE IF ~HasNextLink(data) \/ current_page + 1 > max_pages
               THEN StartLoop(users)
               ELSE /\ existing_users' = users
                    /\ current_page' = current_page + 1
                    /\ reqLog' = Append(reqLog, current_page + 1)
                    /\ CallRequest
                    /\ UNCHANGED <<pc, fpc, loop_ran, idx, successful_invites,
                                   failed_invites, skipped_existing, handled, events>>
    /\ UNCHANGED <<org_id, confirm, ret, exit_status, runs,
                   fetcher, pages, all_items, faults, http_attempt, retry_arg>>
    /\ UNCHANGED <<provVars, cleanVars, clusterVars>>

\* "for email in emails": an address that validate_email rejects.
InviteInvalid ==
    /\ pc = "loop"
    /\ idx <= Len(emails)
    /\ ~validate_email(emails[idx])
    /\ Tally(CountInvalid)
    /\ handled' = Append(handled, InvalidEmail)
    /\ idx' = idx + 1
    /\ UNCHANGED <<rqVars, fetchVars, scriptVars, emails, existing_users, events>>
    /\ UNCHANGED <<provVars, cleanVars, clusterVars>>

\* An address that is already a user of the organization.
InviteExisting ==
    /\ pc = "loop"
    /\ idx <= Len(emails)
    /\ validate_email(emails[idx])
    /\ Lower(emails[idx]) \in existing_users
    /\ Tally(CountExisting)
    /\ handled' = Append(handled, ExistingUser)
    /\ idx' = idx + 1
    /\ UNCHANGED <<rqVars, fetchVars, scriptVars, emails, existing_users, events>>
    /\ UNCHANGED <<provVars, cleanVars, clusterVars>>

\* Any other address: the invitation POST is issued.
InvitePost ==
    /\ pc = "loop"
    /\ idx <= Len(emails)
    /\ validate_email(emails[idx])
    /\ Lower(emails[idx]) \notin existing_users
    /\ pc' = "post"
    /\ events' = Append(events, "POST")
    /\ CallRequest
    /\ UNCHANGED <<fetchVars, org_id, confirm, ret, exit_status, loop_ran, runs,
                   emails, existing_users, idx, successful_invites, failed_invites,
                   skipped_existing, handled>>
    /\ UNCHANGED <<provVars, cleanVars, clusterVars>>

\* The answer of the POST is counted; time.sleep(RATE_LIMIT_DELAY_SECONDS)
\* unless email equals the last element of emails. An exception that left
\* make_atlas_api_request leaves invite_users_to_org as well.
InviteCount ==
    LET response == result IN
    /\ pc = "post"
    /\ rqpc = "returned"
    /\ IF response = RaisedValue
       THEN /\ pc' = "raised"
            /\ UNCHANGED <<rqVars, inviteVars>>
       ELSE /\ pc' = "loop"
            /\ Tally(CountAnswer(response))
            /\ handled' = Append(handled, response)
            /\ events' = IF emails[idx] # emails[Len(emails)]
                         THEN Append(events, "delay") ELSE events
            /\ idx' = idx + 1
            /\ ResetRequest
            /\ UNCHANGED <<emails, existing_users>>
    /\ UNCHANGED <<fetchVars, org_id, confirm, ret, exit_status, loop_ran, runs>>
    /\ UNCHANGED <<provVars, cleanVars, clusterVars>>

\* The loop is over: return failed_invites == 0.
InviteReturn ==
    /\ pc = "loop"
    /\ idx > Len(emails)
    /\ ret' = AllSucceeded(successful_invites, failed_invites)
    /\ pc' = "returned"
    /\ UNCHANGED <<rqVars, fetchVars, inviteVars,
                   org_id, confirm, exit_status, loop_ran, runs>>
    /\ UNCHANGED <<provVars, cleanVars, clusterVars>>

\* main after the batch function: 0 if it returned True, 1 if it returned
\* False or an exception reached "except Exception".
MainReturn ==
    /\ script = "invite_users_to_organization"
    /\ pc \in {"returned", "raised"}
    /\ exit_status' = IF pc = "returned" /\ ret = "True" THEN 0 ELSE 1
    /\ pc' = "exit"
    /\ UNCHANGED <<rqVars, fetchVars, inviteVars, org_id, confirm, ret, loop_ran, runs>>
    /\ UNCHANGED <<provVars, cleanVars, clusterVars>>

\* The script is started again on the same list against the same organization.
RunInviteAgain ==
    /\ script = "invite_users_to_organization"
    /\ pc = "exit"
    /\ runs < MaxRuns
    /\ runs' = runs + 1
    /\ pc' = "main"
    /\ confirm' = ""
    /\ ret' = "unset"
    /\ exit_status' = -1
    /\ loop_ran' = FALSE
    /\ ResetRequest
    /\ fetcher' = "none" /\ current_page' = 0 /\ fpc' = "idle" /\ reqLog' = <<>>
    /\ existing_users' = {} /\ idx' = 0
    /\ successful_invites' = 0 /\ failed_invites' = 0 /\ skipped_existing' = 0
    /\ handled' = <<>> /\ events' = <<>>
    /\ UNCHANGED <<org_id, emails, pages, all_items, faults, http_attempt, retry_arg>>
    /\ UNCHANGED <<provVars, cleanVars, clusterVars>>

InitInvite ==
    /\ NoRequest
    /\ fetcher = "none"
    /\ pages \in UserEndpoints
    /\ current_page = 0
    /\ all_items = <<>>
    /\ fpc = "idle"
    /\ reqLog = <<>>
    /\ faults = 0
    /\ http_attempt = 0
    /\ retry_arg = 0
    /\ pc = "main"
    /\ org_id \in {"", "org"}
    /\ confirm = ""
    /\ ret = "unset"
    /\ exit_status = -1
    /\ loop_ran = FALSE
    /\ runs = 1
    /\ emails \in EmailLists
    /\ existing_users = {}
    /\ idx = 0
    /\ successful_invites = 0
    /\ failed_invites = 0
    /\ skipped_existing = 0
    /\ handled = <<>>
    /\ events = <<>>
    /\ NoProvision
    /\ NoClean
    /\ NoClusterRun
    /\ script = "invite_users_to_organization"

\* The invite script against a user listing that never ends.
InitInviteEndless ==
    /\ NoRequest
    /\ fetcher = "none"
    /\ pages = EndlessEndpoint(<<"a@x.io">>)
    /\ current_page = 0
    /\ all_items = <<>>
    /\ fpc = "idle"
    /\ reqLog = <<>>
    /\ faults = 0
    /\ http_attempt = 0
    /\ retry_arg = 0
    /\ pc = "main"
    /\ org_id = "org"
    /\ confirm = ""
    /\ ret = "unset"
    /\ exit_status = -1
    /\ loop_ran = FALSE
    /\ runs = 1
    /\ emails = <<"A@x.io">>
    /\ existing_users = {}
    /\ idx = 0
    /\ successful_invites = 0
    /\ failed_invites = 0
    /\ skipped_existing = 0
    /\ handled = <<>>
    /\ events = <<>>
    /\ NoProvision
    /\ NoClean
    /\ NoClusterRun
    /\ script = "invite_users_to_organization"

NextInvite ==
    \/ MainInvite
    \/ InviteEnter
    \/ InviteHttp
    \/ ExistingUsersPage
    \/ InviteInvalid
    \/ InviteExisting
    \/ InvitePost
    \/ InviteCount
    \/ InviteReturn
    \/ MainReturn
    \/ RunInviteAgain

SpecInvite == InitInvite /\ [][NextInvite]_vars

\* The four paginated fetchers, against the small endpoints and against the
\* listing that never ends.
InitFetchers == InitFetch \/ InitFetchEndless \/ InitInvite \/ InitInviteEndless

NextFetchers == NextFetch \/ NextInvite

SpecFetchers == InitFetchers /\ [][NextFetchers]_vars

\* ------------------------------------------------------------------------
\* provision_projects_for_users: AtlasAPI._make_request, the calls built on it,
\* and AtlasProvisioner.provision_for_emails / _provision_for_email
\* ------------------------------------------------------------------------

ProvEmails == {"a@x.io", "b@x.io"}

ProvEmailLists == UNION { [1..n -> ProvEmails] : n \in 0..MaxEmails }

\* Project ids: 1 is a project of the organization, 9 a project the tracker
\* remembers but the organization no longer has, 5 the id of a project that
\* is created now; 0 stands for None.
TrackerStates == [ProvEmails -> {0, 1}] \cup { [e \in ProvEmails |-> 9] }

\* The mapping without any email: {} in the code.
EmptyMap == [e \in ProvEmails |-> 0]

\* _load_mapping: the mapping of the file if it exists and json.load accepts
\* it, {} otherwise.
_load_mapping(file) == IF file.state = "json" THEN file.map ELSE EmptyMap

\* _save_mapping: json.dump writes the mapping; when open(file_path, "w")
\* raises, the exception is logged and the file stays as it was.
_save_mapping(file, map) ==
    IF file.writable THEN MkFile("json", map, TRUE) ELSE file

\* get_project_id: the project id of the email, None (0) without one.
get_project_id(map, email) == map[email]

\* add_project: self.ownership_map[email] = {...}; self._save_mapping()
add_project(email, id) ==
    /\ ownership_map' = [ownership_map EXCEPT ![email] = id]
    /\ ownership_file' = _save_mapping(ownership_file, ownership_map')

\* "email in self.ownership_map"
Known(map, email) == map[email] # 0

\* remove_project, which returns Known(ownership_map, email): del and
\* self._save_mapping() for an email the mapping has, nothing otherwise.
remove_project(email) ==
    IF Known(ownership_map, email)
    THEN /\ ownership_map' = [ownership_map EXCEPT ![email] = 0]
         /\ ownership_file' = _save_mapping(ownership_file, ownership_map')
    ELSE UNCHANGED <<ownership_map, ownership_file>>

\* A body of a successful answer is "full" (it has an "id", its "results"
\* hold the user or a cluster) or "empty"; an error body names its errorCode,
\* lacks the "error" key, or the body is not JSON at all.
ProvOutcomes ==
    { MkResponse("response", 200, "absent", b) : b \in {"full", "empty", "not_json"} }
    \cup { MkResponse("response", 409, "absent", b) :
              b \in {"GROUP_ALREADY_EXISTS", "USER_ALREADY_EXISTS", "OTHER_CONFLICT"} }
    \cup { MkResponse("response", 404, "absent", "error"),
           MkResponse("response", 500, "absent", "error"),
           MkResponse("response", 500, "absent", "no_error_key"),
           MkResponse("RequestException", 0, "absent", "plain") }

\* The answers that are not a 2xx with a JSON body.
ProvFaults == { o \in ProvOutcomes : ~(o.status = 200 /\ o.body # "not_json") }

\* The (response_data, success_flag) pair of _make_request.
MkResult(body, success) == [body |-> body, success |-> success]

\* What one pass of "for attempt in range(retry + 1)" does: how it ends, what
\* it adds to successful_requests and to failed_requests, and the pair returned.
Pass(act, successes, failures, value) ==
    [act |-> act, successes |-> successes, failures |-> failures, value |-> value]

\* except requests.exceptions.RequestException, entered after `recorded`
\* entries were appended to failed_requests in the try block.
OnProvException(attempt_, retry, recorded) ==
    IF attempt_ < retry
    THEN Pass("retry", 0, recorded, MkResult("none", FALSE))
    ELSE Pass("return", 0, recorded + 1, MkResult("error", FALSE))

\* r["error"] == 409 and r["errorCode"] == "GROUP_ALREADY_EXISTS" (or
\* "USER_ALREADY_EXISTS"); the "error" field of an Atlas error body is the status.
AlreadyExists(o) ==
    o.status = 409 /\ o.body \in {"GROUP_ALREADY_EXISTS", "USER_ALREADY_EXISTS"}

\* HTTPStatus(response.status_code).is_success
IsSuccess(status) == status >= 200 /\ status <= 299

provisioning_make_request(o, attempt_, retry) ==
    IF o.kind # "response" \/ o.body = "not_json"
    THEN OnProvException(attempt_, retry, 0)
    ELSE IF IsSuccess(o.status)
    THEN Pass("return", 1, 0, MkResult(o.body, TRUE))
    ELSE IF o.body = "no_error_key"
    THEN Pass("raise", 0, 0, MkResult("KeyError", FALSE))
    ELSE IF AlreadyExists(o)
    THEN Pass("return", 1, 0, MkResult(o.body, FALSE))
    ELSE OnProvException(attempt_, retry, 1)

\* retry=2 at every call site of the provisioning flow
prov_retry == 2

\* A call of AtlasAPI._make_request begins: self.total_requests += 1
ProvCall ==
    /\ CallRequest
    /\ total_requests' = total_requests + 1

CallSites ==
    {"get_projects_in_org", "create_project", "invite_user_to_project",
     "get_project_users", "get_clusters_in_project", "create_cluster"}

EmailSites == CallSites \ {"get_projects_in_org"}

\* AtlasAPI.delete_project: _make_request("delete", endpoint, retry=2)
DeleteSites == {"delete_project"}

\* One pass of the loop of _make_request; time.sleep(2) before a retry.
ProvHttp ==
    /\ ppc \in CallSites \cup DeleteSites
    /\ rqpc = "try"
    /\ \E o \in ProvOutcomes :
          LET d == provisioning_make_request(o, attempt, prov_retry)
              fault == IF o \in ProvFaults THEN 1 ELSE 0 IN
          /\ faults + fault <= MaxFaults
          /\ faults' = faults + fault
          /\ resps' = <<o>>
          /\ successful_requests' = successful_requests + d.successes
          /\ failed_requests' = failed_requests + d.failures
          /\ IF d.act = "retry"
             THEN /\ sleeps' = Append(sleeps, 2)
                  /\ attempt' = attempt + 1
                  /\ UNCHANGED <<rqpc, result>>
             ELSE /\ rqpc' = IF d.act = "raise" THEN "raised" ELSE "returned"
                  /\ result' = d.value
                  /\ UNCHANGED <<sleeps, attempt>>
    /\ UNCHANGED <<ppc, total_requests, operation_results, ownership_map,
                   existing_project_map, unique_emails, email_pos, project_id>>
    /\ UNCHANGED <<retry_arg, fetcher, pages, current_page, all_items, fpc, reqLog, http_attempt>>
    /\ UNCHANGED <<scriptVars, inviteVars, clusterVars, cleanVars, trackerVars>>

\* self.operation_results["provision"]["success"] += 1
ProvisionSucceeded ==
    operation_results' = [operation_results EXCEPT !.success = @ + 1]

\* self.operation_results["provision"]["failed"] += 1 and
\* ["failed_emails"].append(email)
ProvisionFailed(email) ==
    operation_results' = [operation_results EXCEPT !.failed = @ + 1,
                                                   !.failed_emails = Append(@, email)]

\* _provision_for_email returns; the for loop goes on to the next email.
NextEmail ==
    /\ ppc' = "email"
    /\ email_pos' = email_pos + 1
    /\ ResetRequest
    /\ UNCHANGED total_requests

\* The orders in which list(set(emails)) can hold the distinct emails.
Orders(emails_) ==
    LET distinct == { emails_[i] : i \in 1..Len(emails_) } IN
    { q \in [1..Cardinality(distinct) -> distinct] :
         \A i, j \in 1..Cardinality(distinct) : i # j => q[i] # q[j] }

\* provision_for_emails: de-duplicate, then self.api.get_projects_in_org()
ProvisionStart ==
    /\ ppc = "provision_for_emails"
    /\ unique_emails' \in Orders(emails)
    /\ ppc' = "get_projects_in_org"
    /\ ProvCall
    /\ UNCHANGED <<successful_requests, failed_requests, operation_results, ownership_map,
                   existing_project_map, email_pos, project_id>>
    /\ UNCHANGED <<fetchVars, scriptVars, inviteVars, clusterVars, cleanVars, trackerVars>>

\* existing_project_map is built from the projects returned ([] on failure);
\* an exception of get_projects_in_org leaves provision_for_emails.
ProvisionProjects ==
    /\ ppc = "get_projects_in_org"
    /\ rqpc \in {"returned", "raised"}
    /\ IF rqpc = "raised"
       THEN /\ ppc' = "raised"
            /\ UNCHANGED <<existing_project_map, email_pos, rqVars>>
       ELSE /\ existing_project_map' =
                  IF result.success /\ result.body = "full" THEN {1} ELSE {}
            /\ ppc' = "email"
            /\ email_pos' = 1
            /\ ResetRequest
    /\ UNCHANGED <<total_requests, successful_requests, failed_requests, operation_results,
                   ownership_map, unique_emails, project_id>>
    /\ UNCHANGED <<fetchVars, scriptVars, inviteVars, clusterVars, cleanVars, trackerVars>>

\* _provision_for_email up to its first API call: the tracked project is kept
\* only if it is among existing_project_map.values().
ProvisionEmail ==
    LET email == unique_emails[email_pos]
        tracked == ownership_map[email]
        kept == IF tracked # 0 /\ tracked \in existing_project_map THEN tracked ELSE 0 IN
    /\ ppc = "email"
    /\ email_pos <= Len(unique_emails)
    /\ project_id' = kept
    /\ ppc' = IF kept = 0 THEN "create_project" ELSE "get_project_users"
    /\ ProvCall
    /\ UNCHANGED <<successful_requests, failed_requests, operation_results, ownership_map,
                   existing_project_map, unique_emails, email_pos>>
    /\ UNCHANGED <<fetchVars, scriptVars, inviteVars, clusterVars, cleanVars, trackerVars>>

\* create_project returns (result.get("id"), True) on success and
\* (None, False) otherwise; "if not success or not project_id" is the failure.
ProvisionCreated ==
    LET email == unique_emails[email_pos]
        success == result.success
        id == IF success /\ result.body = "full" THEN 5 ELSE 0 IN
    /\ ppc = "create_project"
    /\ rqpc = "returned"
    /\ IF ~success \/ id = 0
       THEN /\ ProvisionFailed(email)
            /\ NextEmail
            /\ UNCHANGED <<project_id, ownership_map, ownership_file>>
       ELSE /\ project_id' = id
            /\ add_project(email, id)
            /\ ppc' = "invite_user_to_project"
            /\ ProvCall
            /\ UNCHANGED <<operation_results, email_pos>>
    /\ UNCHANGED <<successful_requests, failed_requests, existing_project_map, unique_emails>>
    /\ UNCHANGED <<tracker_call, tracker_calls, delete_results>>
    /\ UNCHANGED <<fetchVars, scriptVars, inviteVars, clusterVars, cleanVars>>

\* The project exists: the user is invited unless get_project_users lists it.
ProvisionUsers ==
    LET listed == result.success /\ result.body = "full" IN
    /\ ppc = "get_project_users"
    /\ rqpc = "returned"
    /\ ppc' = IF listed THEN "get_clusters_in_project" ELSE "invite_user_to_project"
    /\ ProvCall
    /\ UNCHANGED <<successful_requests, failed_requests, operation_results, ownership_map,
                   existing_project_map, unique_emails, email_pos, project_id>>
    /\ UNCHANGED <<fetchVars, scriptVars, inviteVars, clusterVars, cleanVars, trackerVars>>

\* Whether or not the invitation succeeded, the clusters are looked up next.
ProvisionInvited ==
    /\ ppc = "invite_user_to_project"
    /\ rqpc = "returned"
    /\ ppc' = "get_clusters_in_project"
    /\ ProvCall
    /\ UNCHANGED <<successful_requests, failed_requests, operation_results, ownership_map,
                   existing_project_map, unique_emails, email_pos, project_id>>
    /\ UNCHANGED <<fetchVars, scriptVars, inviteVars, clusterVars, cleanVars, trackerVars>>

\* "if not clusters": a cluster is created; otherwise the email is done.
ProvisionClusters ==
    LET has_clusters == result.success /\ result.body = "full" IN
    /\ ppc = "get_clusters_in_project"
    /\ rqpc = "returned"
    /\ IF has_clusters
       THEN /\ ProvisionSucceeded
            /\ NextEmail
       ELSE /\ ppc' = "create_cluster"
            /\ ProvCall
            /\ UNCHANGED <<operation_results, email_pos>>
    /\ UNCHANGED <<successful_requests, failed_requests, ownership_map,
                   existing_project_map, unique_emails, project_id>>
    /\ UNCHANGED <<fetchVars, scriptVars, inviteVars, clusterVars, cleanVars, trackerVars>>

\* create_cluster returns the success flag of its request.
ProvisionClusterCreated ==
    /\ ppc = "create_cluster"
    /\ rqpc = "returned"
    /\ IF result.success
       THEN ProvisionSucceeded
       ELSE ProvisionFailed(unique_emails[email_pos])
    /\ NextEmail
    /\ UNCHANGED <<successful_requests, failed_requests, ownership_map,
                   existing_project_map, unique_emails, project_id>>
    /\ UNCHANGED <<fetchVars, scriptVars, inviteVars, clusterVars, cleanVars, trackerVars>>

\* except Exception in _provision_for_email
ProvisionException ==
    /\ ppc \in EmailSites
    /\ rqpc = "raised"
    /\ ProvisionFailed(unique_emails[email_pos])
    /\ NextEmail
    /\ UNCHANGED <<successful_requests, failed_requests, ownership_map,
                   existing_project_map, unique_emails, project_id>>
    /\ UNCHANGED <<fetchVars, scriptVars, inviteVars, clusterVars, cleanVars, trackerVars>>

\* The for loop of provision_for_emails is over.
ProvisionReturn ==
    /\ ppc = "email"
    /\ email_pos > Len(unique_emails)
    /\ ppc' = "returned"
    /\ UNCHANGED <<rqVars, total_requests, successful_requests, failed_requests,
                   operation_results, ownership_map, existing_project_map, unique_emails,
                   email_pos, project_id>>
    /\ UNCHANGED <<fetchVars, scriptVars, inviteVars, clusterVars, cleanVars, trackerVars>>

\* AtlasProvisioner() was constructed: AtlasAPI.__init__ made its one
\* request, _verify_credentials, and it succeeded at once.
InitProvision ==
    /\ NoClean
    /\ NoRequest
    /\ NoFetch
    /\ NoScript
    /\ NoClusters
    /\ emails \in ProvEmailLists
    /\ existing_users = {}
    /\ idx = 0
    /\ successful_invites = 0
    /\ failed_invites = 0
    /\ skipped_existing = 0
    /\ handled = <<>>
    /\ events = <<>>
    /\ ppc = "provision_for_emails"
    /\ total_requests = 1
    /\ successful_requests = 1
    /\ failed_requests = 0
    /\ operation_results = [success |-> 0, failed |-> 0, failed_emails |-> <<>>]
    /\ ownership_map \in TrackerStates
    /\ ownership_file = MkFile("json", ownership_map, TRUE)
    /\ tracker_call = NoCall
    /\ tracker_calls = 0
    /\ delete_results = NoResults
    /\ existing_project_map = {}
    /\ unique_emails = <<>>
    /\ email_pos = 0
    /\ project_id = 0

NextProvision ==
    \/ ProvHttp
    \/ ProvisionStart
    \/ ProvisionProjects
    \/ ProvisionEmail
    \/ ProvisionCreated
    \/ ProvisionUsers
    \/ ProvisionInvited
    \/ ProvisionClusters
    \/ ProvisionClusterCreated
    \/ ProvisionException
    \/ ProvisionReturn

SpecProvision == InitProvision /\ [][NextProvision]_vars

\* --- AtlasProvisioner.delete_projects_for_emails

\* self.operation_results["delete_projects"]["success"] += 1
DeletionSucceeded ==
    delete_results' = [delete_results EXCEPT !.success = @ + 1]

DeletionFailed_Forget(email) ==
    /\ delete_results' = [delete_results EXCEPT !.failed = @ + 1,
                                                !.failed_emails = Append(@, email)]
    /\ remove_project(email)

\* The else branch and the except branch of _delete_project_for_email:
\* ["failed"] += 1 and ["failed_emails"].append(email); the tracker is not
\* touched.
DeletionFailed(email) ==
    /\ delete_results' = [delete_results EXCEPT !.failed = @ + 1,
                                                !.failed_emails = Append(@, email)]
    /\ UNCHANGED <<ownership_map, ownership_file>>

\* delete_projects_for_emails: de-duplicate, then the loop begins.
DeleteProjectsStart ==
    /\ ppc = "delete_projects_for_emails"
    /\ unique_emails' \in Orders(emails)
    /\ ppc' = "delete_email"
    /\ email_pos' = 1
    /\ UNCHANGED <<total_requests, successful_requests, failed_requests, operation_results,
                   ownership_map, existing_project_map, project_id, trackerVars>>
    /\ UNCHANGED <<rqVars, fetchVars, scriptVars, inviteVars, clusterVars, cleanVars>>

\* _delete_project_for_email up to its API call: "if not project_id: return"
DeleteProjectEmail ==
    LET email == unique_emails[email_pos]
        id == get_project_id(ownership_map, email) IN
    /\ ppc = "delete_email"
    /\ email_pos <= Len(unique_emails)
    /\ project_id' = id
    /\ IF id = 0
       THEN /\ email_pos' = email_pos + 1
            /\ UNCHANGED <<ppc, rqVars, total_requests>>
       ELSE /\ ppc' = "delete_project"
            /\ ProvCall
            /\ UNCHANGED email_pos
    /\ UNCHANGED <<successful_requests, failed_requests, operation_results, ownership_map,
                   existing_project_map, unique_emails, trackerVars>>
    /\ UNCHANGED <<fetchVars, scriptVars, inviteVars, clusterVars, cleanVars>>

\* "if self.api.delete_project(project_id)": the mapping is removed and the
\* success counted, else the failure is counted; an exception of
\* delete_project reaches "except Exception", which counts a failure too.
DeleteProjectDone ==
    LET email == unique_emails[email_pos] IN
    /\ ppc = "delete_project"
    /\ rqpc \in {"returned", "raised"}
    /\ IF rqpc = "returned" /\ result.success
       THEN /\ remove_project(email)
            /\ DeletionSucceeded
       ELSE DeletionFailed(email)
    /\ ppc' = "delete_email"
    /\ email_pos' = email_pos + 1
    /\ ResetRequest
    /\ UNCHANGED <<total_requests, successful_requests, failed_requests, operation_results,
                   existing_project_map, unique_emails, project_id, tracker_call,
                   tracker_calls>>
    /\ UNCHANGED <<fetchVars, scriptVars, inviteVars, clusterVars, cleanVars>>

\* The for loop of delete_projects_for_emails is over.
DeleteProjectsReturn ==
    /\ ppc = "delete_email"
    /\ email_pos > Len(unique_emails)
    /\ ppc' = "returned"
    /\ UNCHANGED <<rqVars, total_requests, successful_requests, failed_requests,
                   operation_results, ownership_map, existing_project_map, unique_emails,
                   email_pos, project_id, trackerVars>>
    /\ UNCHANGED <<fetchVars, scriptVars, inviteVars, clusterVars, cleanVars>>

\* AtlasProvisioner() was constructed and delete_projects_for_emails(emails)
\* is called.
InitDeleteProjects ==
    /\ NoClean
    /\ NoRequest
    /\ NoFetch
    /\ NoScript
    /\ NoClusters
    /\ emails \in ProvEmailLists
    /\ existing_users = {}
    /\ idx = 0
    /\ successful_invites = 0
    /\ failed_invites = 0
    /\ skipped_existing = 0
    /\ handled = <<>>
    /\ events = <<>>
    /\ ppc = "delete_projects_for_emails"
    /\ total_requests = 1
    /\ successful_requests = 1
    /\ failed_requests = 0
    /\ operation_results = NoResults
    /\ ownership_map \in TrackerStates
    /\ \E w \in BOOLEAN : ownership_file = MkFile("json", ownership_map, w)
    /\ tracker_call = NoCall
    /\ tracker_calls = 0
    /\ delete_results = NoResults
    /\ existing_project_map = {}
    /\ unique_emails = <<>>
    /\ email_pos = 0
    /\ project_id = 0

NextDeleteProjects ==
    \/ ProvHttp
    \/ DeleteProjectsStart
    \/ DeleteProjectEmail
    \/ DeleteProjectDone
    \/ DeleteProjectsReturn

SpecDeleteProjects == InitDeleteProjects /\ [][NextDeleteProjects]_vars

\* --- AtlasOwnershipTracker on its own: calls of add_project and
\* remove_project, and trackers constructed later on the same path

MkCall(op, email, id, returned) ==
    [op |-> op, email |-> email, id |-> id, returned |-> returned]

\* The files a tracker can find at its path when it is constructed.
Files ==
    { MkFile(st, EmptyMap, w) : st \in {"absent", "corrupt"}, w \in BOOLEAN }
    \cup { MkFile("json", m, w) : m \in TrackerStates, w \in BOOLEAN }

TrackerAdd ==
    /\ ppc = "tracker"
    /\ tracker_calls < MaxCalls
    /\ \E email \in ProvEmails, id \in {1, 5} :
          /\ add_project(email, id)
          /\ tracker_call' = MkCall("add_project", email, id, "None")
    /\ tracker_calls' = tracker_calls + 1
    /\ UNCHANGED <<ppc, total_requests, successful_requests, failed_requests,
                   operation_results, existing_project_map, unique_emails, email_pos,
                   project_id, delete_results>>
    /\ UNCHANGED <<rqVars, fetchVars, scriptVars, inviteVars, clusterVars, cleanVars>>

TrackerRemove ==
    /\ ppc = "tracker"
    /\ tracker_calls < MaxCalls
    /\ \E email \in ProvEmails :
          /\ remove_project(email)
          /\ tracker_call' = MkCall("remove_project", email, 0,
                                    IF Known(ownership_map, email) THEN "True" ELSE "False")
    /\ tracker_calls' = tracker_calls + 1
    /\ UNCHANGED <<ppc, total_requests, successful_requests, failed_requests,
                   operation_results, existing_project_map, unique_emails, email_pos,
                   project_id, delete_results>>
    /\ UNCHANGED <<rqVars, fetchVars, scriptVars, inviteVars, clusterVars, cleanVars>>

\* AtlasOwnershipTracker(file_path) is constructed again on the same path:
\* self.ownership_map = {}; self._load_mapping()
TrackerConstruct ==
    /\ ppc = "tracker"
    /\ tracker_calls < MaxCalls
    /\ ownership_map' = _load_mapping(ownership_file)
    /\ tracker_call' = MkCall("__init__", "", 0, "None")
    /\ tracker_calls' = tracker_calls + 1
    /\ UNCHANGED <<ppc, total_requests, successful_requests, failed_requests,
                   operation_results, existing_project_map, unique_emails, email_pos,
                   project_id, ownership_file, delete_results>>
    /\ UNCHANGED <<rqVars, fetchVars, scriptVars, inviteVars, clusterVars, cleanVars>>

InitTracker ==
    /\ NoClean
    /\ NoRequest
    /\ NoFetch
    /\ NoScript
    /\ NoInvite
    /\ NoClusters
    /\ ppc = "tracker"
    /\ total_requests = 0
    /\ successful_requests = 0
    /\ failed_requests = 0
    /\ operation_results = NoResults
    /\ ownership_file \in Files
    /\ ownership_map = _load_mapping(ownership_file)
    /\ tracker_call = NoCall
    /\ tracker_calls = 0
    /\ delete_results = NoResults
    /\ existing_project_map = {}
    /\ unique_emails = <<>>
    /\ email_pos = 0
    /\ project_id = 0

NextTracker ==
    \/ TrackerAdd
    \/ TrackerRemove
    \/ TrackerConstruct

SpecTracker == InitTracker /\ [][NextTracker]_vars

\* ------------------------------------------------------------------------
\* delete_all_clusters_in_organization and pause_all_clusters_in_organization:
\* the batch functions and their main
\* ------------------------------------------------------------------------

\* The two scripts share the code of their loop over projects, of main's
\* confirmation and of main's exit status.
ClusterScripts ==
    {"delete_all_clusters_in_organization", "pause_all_clusters_in_organization"}

\* A cluster dict: it has a name or not, and "paused" is set or not.
ClusterKinds == {"running", "paused", "unnamed"}

ClusterLists == UNION { [1..n -> ClusterKinds] : n \in 0..MaxClusters }

\* A project dict, with the clusters the API lists for it; id 0 is a
\* project without "id".
MkProject(id, clusters_) == [id |-> id, clusters |-> clusters_]

ProjectRecords == { MkProject(0, <<>>) } \cup { MkProject(1, c) : c \in ClusterLists }

\* The organization's project listing: no project, one page, two pages, or a
\* bare array.
OrgListings ==
    { << MkPage("envelope", <<>>, FALSE) >> }
    \cup { << MkPage("envelope", <<p>>, FALSE) >> : p \in ProjectRecords }
    \cup { << MkPage("envelope", <<p>>, TRUE), MkPage("envelope", <<q>>, FALSE) >> :
              p \in ProjectRecords, q \in ProjectRecords }
    \cup { << MkPage("list", <<p>>, FALSE) >> : p \in ProjectRecords }

\* Outcomes of the requests for one project: GET clusters, DELETE, PATCH.
ClusterOutcomes ==
    { MkResponse("response", st, "absent", "plain") : st \in {200, 202, 204, 500} }
    \cup { MkResponse("RequestException", 0, "absent", "plain") }

\* delete_response and delete_response.status_code == 202
Deleted(response) == ~Falsy(response) /\ response.status = 202

\* pause_response and pause_response.status_code in [200, 202]
Paused(response) == ~Falsy(response) /\ response.status \in {200, 202}

\* return total_failures == 0
NoFailures_Always(failures) == "True"

NoFailures(failures) == IF failures = 0 THEN "True" ELSE "False"

\* return 0 if success else 1; 1 as well when an exception reached main
ExitStatus(pc_, ret_) == IF pc_ = "returned" /\ ret_ = "True" THEN 0 ELSE 1

\* What is typed at "Type '... ALL CLUSTERS' to confirm: "
TypedPhrases(phrase) == {phrase, phrase \o " ", "y", ""}

\* "if confirm != "DELETE ALL CLUSTERS": ... return 0"
Cancelled_IfEmpty(typed, phrase) == typed = ""

Cancelled(typed, phrase) == typed # phrase

\* main up to the call of the batch function: the phrase must be typed exactly.
ConfirmPhrase(phrase, callee) ==
    /\ pc = "main"
    /\ IF org_id = ""
       THEN /\ exit_status' = 1 /\ pc' = "exit" /\ UNCHANGED confirm
       ELSE \E typed \in TypedPhrases(phrase) :
               /\ confirm' = typed
               /\ IF Cancelled(typed, phrase)
                  THEN exit_status' = 0 /\ pc' = "exit"
                  ELSE pc' = callee /\ UNCHANGED exit_status
    /\ UNCHANGED <<org_id, ret, loop_ran, runs>>

\* The counters are set to 0 and "for project in projects" begins.
StartProjects(projects_) ==
    /\ projects' = projects_
    /\ project_pos' = 1
    /\ clusters' = <<>>
    /\ cluster_pos' = 0
    /\ total_clusters_deleted' = 0
    /\ total_clusters_paused' = 0
    /\ total_already_paused' = 0
    /\ total_failures' = 0
    /\ loop_ran' = TRUE
    /\ pc' = "projects"

\* One project of the loop: skipped without id; otherwise its clusters are
\* requested, a failed request counts one failure, and clusters_response.json()
\* raises on an answer without body.
ProjectStep(o) ==
    LET project == projects[project_pos]
        clusters_response == delete_all_make_atlas_api_request(o) IN
    /\ script \in ClusterScripts
    /\ pc = "projects"
    /\ project_pos <= Len(projects)
    /\ IF project.id = 0
       THEN UNCHANGED api_log
       ELSE Log(Call("GET", "clusters", project.id, ""))
    /\ IF project.id = 0
       THEN /\ project_pos' = project_pos + 1
            /\ UNCHANGED <<pc, clusters, cluster_pos, total_failures>>
       ELSE IF Falsy(clusters_response)
       THEN /\ total_failures' = total_failures + 1
            /\ project_pos' = project_pos + 1
            /\ UNCHANGED <<pc, clusters, cluster_pos>>
       ELSE IF clusters_response.status = 204
       THEN /\ pc' = "raised"
            /\ UNCHANGED <<project_pos, clusters, cluster_pos, total_failures>>
       ELSE /\ clusters' = project.clusters
            /\ cluster_pos' = 1
            /\ pc' = "clusters"
            /\ UNCHANGED <<project_pos, total_failures>>
    /\ UNCHANGED <<script, projects, total_clusters_deleted, total_clusters_paused,
                   total_already_paused>>
    /\ UNCHANGED <<org_id, confirm, ret, exit_status, loop_ran, runs>>

\* "for cluster in clusters" is over: the next project.
ClustersDone ==
    /\ script \in ClusterScripts
    /\ pc = "clusters"
    /\ cluster_pos > Len(clusters)
    /\ pc' = "projects"
    /\ project_pos' = project_pos + 1
    /\ UNCHANGED <<script, projects, clusters, cluster_pos, total_clusters_deleted,
                   total_clusters_paused, total_already_paused, total_failures>>
    /\ UNCHANGED <<org_id, confirm, ret, exit_status, loop_ran, runs>>
    /\ UNCHANGED <<rqVars, fetchVars, inviteVars, provVars, cleanVars>>

\* "for project in projects" is over: return total_failures == 0
ProjectsDone ==
    /\ script \in ClusterScripts
    /\ pc = "projects"
    /\ project_pos > Len(projects)
    /\ ret' = NoFailures(total_failures)
    /\ pc' = "returned"
    /\ UNCHANGED <<org_id, confirm, exit_status, loop_ran, runs, clusterVars>>
    /\ UNCHANGED <<rqVars, fetchVars, inviteVars, provVars, cleanVars>>

\* main after the batch function
ClusterMainReturn ==
    /\ script \in ClusterScripts
    /\ pc \in {"returned", "raised"}
    /\ exit_status' = ExitStatus(pc, ret)
    /\ pc' = "exit"
    /\ UNCHANGED <<org_id, confirm, ret, loop_ran, runs, clusterVars>>
    /\ UNCHANGED <<rqVars, fetchVars, inviteVars, provVars, cleanVars>>

\* One project of the loop, on any outcome of its cluster request.
ProjectClusters ==
    \E o \in ClusterOutcomes :
        ProjectStep(o) /\ UNCHANGED <<rqVars, fetchVars, inviteVars, provVars, reaperVars, cleanerVars>>

\* --- delete_all_clusters_in_organization

DeleteAllMain ==
    /\ script = "delete_all_clusters_in_organization"
    /\ ConfirmPhrase("DELETE ALL CLUSTERS", "delete_all_clusters_in_org")
    /\ UNCHANGED <<rqVars, fetchVars, inviteVars, provVars, cleanVars, clusterVars>>

\* delete_all_clusters_in_org up to the first page of get_all_paginated_projects
DeleteAllEnter ==
    /\ pc = "delete_all_clusters_in_org"
    /\ IF org_id = ""
       THEN /\ ret' = "False" /\ pc' = "returned"
            /\ UNCHANGED <<fetcher, current_page, all_items, fpc>>
       ELSE /\ pc' = "get_all_paginated_projects"
            /\ fetcher' = "get_all_paginated_projects"
            /\ current_page' = 1
            /\ all_items' = <<>>
            /\ fpc' = "loop"
            /\ UNCHANGED ret
    /\ UNCHANGED <<org_id, confirm, exit_status, loop_ran, runs>>
    /\ UNCHANGED <<pages, reqLog, faults, http_attempt, retry_arg>>
    /\ UNCHANGED <<rqVars, inviteVars, provVars, cleanVars, clusterVars>>

DeleteAllFetch ==
    /\ pc = "get_all_paginated_projects"
    /\ \E o \in GetOutcomes : get_all_paginated_projects_pass(o)
    /\ Log(Call("GET", "groups", 0, ""))
    /\ UNCHANGED <<rqVars, scriptVars, inviteVars, provVars, reaperVars, cleanerVars, clusterVars>>

\* "if not projects: return False"; an exception of the fetcher goes on to main.
DeleteAllFetched ==
    /\ pc = "get_all_paginated_projects"
    /\ fpc \in {"returned", "raised"}
    /\ IF fpc = "raised"
       THEN /\ pc' = "raised"
            /\ UNCHANGED <<ret, loop_ran, clusterVars>>
       ELSE IF all_items = <<>>
       THEN /\ ret' = "False" /\ pc' = "returned"
            /\ UNCHANGED <<loop_ran, clusterVars>>
       ELSE /\ StartProjects(all_items)
            /\ UNCHANGED <<ret, script>>
    /\ UNCHANGED <<org_id, confirm, exit_status, runs>>
    /\ UNCHANGED <<rqVars, fetchVars, inviteVars, provVars, cleanVars>>

\* One cluster of the loop: skipped without name, else DELETE is issued.
DeleteAllCluster ==
    /\ script = "delete_all_clusters_in_organization"
    /\ pc = "clusters"
    /\ cluster_pos <= Len(clusters)
    /\ cluster_pos' = cluster_pos + 1
    /\ IF clusters[cluster_pos] = "unnamed"
       THEN UNCHANGED <<total_clusters_deleted, total_failures, result, api_log>>
       ELSE \E o \in ClusterOutcomes :
               LET delete_response == delete_all_make_atlas_api_request(o) IN
               /\ Log(Call("DELETE", "clusters", projects[project_pos].id, clusters[cluster_pos]))
               /\ result' = delete_response
               /\ IF Deleted(delete_response)
                  THEN /\ total_clusters_deleted' = total_clusters_deleted + 1
                       /\ UNCHANGED total_failures
                  ELSE /\ total_failures' = total_failures + 1
                       /\ UNCHANGED total_clusters_deleted
    /\ UNCHANGED <<script, projects, project_pos, clusters, total_clusters_paused,
                   total_already_paused>>
    /\ UNCHANGED <<rqpc, attempt, sleeps, resps>>
    /\ UNCHANGED <<fetchVars, scriptVars, inviteVars, provVars, reaperVars, cleanerVars>>

InitDeleteAll ==
    /\ NoRequest
    /\ NoInvite
    /\ NoProvision
    /\ NoClean
    /\ NoClusterRun
    /\ script = "delete_all_clusters_in_organization"
    /\ fetcher = "none"
    /\ pages \in OrgListings
    /\ current_page = 0
    /\ all_items = <<>>
    /\ fpc = "idle"
    /\ reqLog = <<>>
    /\ faults = 0
    /\ http_attempt = 0
    /\ retry_arg = 0
    /\ pc = "main"
    /\ org_id \in {"", "org"}
    /\ confirm = ""
    /\ ret = "unset"
    /\ exit_status = -1
    /\ loop_ran = FALSE
    /\ runs = 1

\* --- pause_all_clusters_in_organization

PauseMain ==
    /\ script = "pause_all_clusters_in_organization"
    /\ ConfirmPhrase("PAUSE ALL CLUSTERS", "pause_all_clusters_in_org")
    /\ UNCHANGED <<rqVars, fetchVars, inviteVars, provVars, cleanVars, clusterVars>>

\* pause_all_clusters_in_org up to its loop: one GET of the projects, whose
\* first page is all it reads; response.json().get raises on an answer
\* without body and on a bare array.
PauseEnter ==
    /\ pc = "pause_all_clusters_in_org"
    /\ IF org_id = "" THEN UNCHANGED api_log ELSE Log(Call("GET", "groups", 0, ""))
    /\ IF org_id = ""
       THEN /\ ret' = "False" /\ pc' = "returned"
            /\ UNCHANGED <<loop_ran, clusterVars>>
       ELSE \E o \in ClusterOutcomes :
               LET response == delete_all_make_atlas_api_request(o) IN
               IF Falsy(response)
               THEN /\ ret' = "False" /\ pc' = "returned"
                    /\ UNCHANGED <<loop_ran, clusterVars>>
               ELSE IF response.status = 204 \/ pages[1].shape = "list"
               THEN /\ pc' = "raised"
                    /\ UNCHANGED <<ret, loop_ran, clusterVars>>
               ELSE /\ StartProjects(pages[1].items)
                    /\ UNCHANGED <<ret, script>>
    /\ UNCHANGED <<org_id, confirm, exit_status, runs>>
    /\ UNCHANGED <<rqVars, fetchVars, inviteVars, provVars, reaperVars, cleanerVars>>

\* One cluster of the loop: skipped without name, counted when already
\* paused, else PATCH {"paused": true} is issued.
PauseCluster ==
    /\ script = "pause_all_clusters_in_organization"
    /\ pc = "clusters"
    /\ cluster_pos <= Len(clusters)
    /\ cluster_pos' = cluster_pos + 1
    /\ IF clusters[cluster_pos] = "unnamed"
       THEN UNCHANGED <<total_clusters_paused, total_already_paused, total_failures,
                        api_log>>
       ELSE IF clusters[cluster_pos] = "paused"
       THEN /\ total_already_paused' = total_already_paused + 1
            /\ UNCHANGED <<total_clusters_paused, total_failures, api_log>>
       ELSE \E o \in ClusterOutcomes :
               /\ Log(Call("PATCH", "clusters", projects[project_pos].id, clusters[cluster_pos]))
               /\ IF Paused(delete_all_make_atlas_api_request(o))
                  THEN /\ total_clusters_paused' = total_clusters_paused + 1
                       /\ UNCHANGED <<total_failures, total_already_paused>>
                  ELSE /\ total_failures' = total_failures + 1
                       /\ UNCHANGED <<total_clusters_paused, total_already_paused>>
    /\ UNCHANGED <<script, projects, project_pos, clusters, total_clusters_deleted>>
    /\ UNCHANGED <<rqVars, fetchVars, scriptVars, inviteVars, provVars, reaperVars, cleanerVars>>

InitPause ==
    /\ NoRequest
    /\ NoInvite
    /\ NoProvision
    /\ NoClean
    /\ NoClusterRun
    /\ script = "pause_all_clusters_in_organization"
    /\ fetcher = "none"
    /\ pages \in OrgListings
    /\ current_page = 0
    /\ all_items = <<>>
    /\ fpc = "idle"
    /\ reqLog = <<>>
    /\ faults = 0
    /\ http_attempt = 0
    /\ retry_arg = 0
    /\ pc = "main"
    /\ org_id = "org"
    /\ confirm = ""
    /\ ret = "unset"
    /\ exit_status = -1
    /\ loop_ran = FALSE
    /\ runs = 1

\* --- any of the three scripts, started once (the invite script again and again)

InitMain == InitInvite \/ InitDeleteAll \/ InitPause

NextMain ==
    \/ NextInvite
    \/ DeleteAllMain
    \/ DeleteAllEnter
    \/ DeleteAllFetch
    \/ DeleteAllFetched
    \/ DeleteAllCluster
    \/ PauseMain
    \/ PauseEnter
    \/ PauseCluster
    \/ ProjectClusters
    \/ ClustersDone
    \/ ProjectsDone
    \/ ClusterMainReturn

SpecMain == InitMain /\ [][NextMain]_vars

\* ------------------------------------------------------------------------
\* cleanup_aged_projects_and_clusters: the listings, the delete helpers and main
\* ------------------------------------------------------------------------

USER_DELETION_THRESHOLD == 90

CLUSTER_DELETION_THRESHOLD == 120

\* The "created" field of a project dict: absent, a text that fromisoformat
\* rejects, a timestamp without UTC offset, or a UTC timestamp. age is the
\* number of days from the timestamp to CURRENT_DATE_UTC.
MkCreated(kind, age) == [kind |-> kind, age |-> age]

Ages == {90, 91, 120, 121}

CreatedValues ==
    { MkCreated(k, 0) : k \in {"missing", "unparsable"} }
    \cup { MkCreated("naive", 121) }
    \cup { MkCreated("aware", a) : a \in Ages }

\* created_date < CURRENT_DATE_UTC - timedelta(days=days)
OlderThan_OrEqual(created, days) == created.age >= days

OlderThan(created, days) == created.age > days

\* A project dict of the cleanup script; id 0 is a project without "id".
MkAgedProject(id, created) == [id |-> id, created |-> created]

\* The i-th project of a listing.
AgedProjectsAt(i) ==
    { MkAgedProject(i, c) : c \in CreatedValues }
    \cup { MkAgedProject(0, MkCreated("aware", 121)) }

AgedProjectLists ==
    UNION { { p \in [1..n -> UNION { AgedProjectsAt(i) : i \in 1..n }] :
                \A i \in 1..n : p[i] \in AgedProjectsAt(i) }
            : n \in 1..MaxProjects }

\* GET /groups of the cleanup script: no project, or the projects on one page.
AgedOrgListings ==
    { << EmptyPage >> } \cup { << MkPage("envelope", p, FALSE) >> : p \in AgedProjectLists }

\* What the API lists for a project or for the organization; "" is a record
\* without username, id or name.
DbUserLists == { <<>>, <<"__onprem_monitoring", "admin", "app", "">> }

ProjectUserLists == { <<>>, <<"u7", "">> }

ClusterNameLists == { <<>>, <<"c1", "">> }

InvitationLists == { <<>>, <<"i5">>, <<"i5", "">> }

\* The body of the answer to a DELETE: a JSON document, or nothing that
\* response.json() can parse.
DeleteBodies == { EmptyPage, NonePage }

DeleteOutcomes == ClusterOutcomes \X DeleteBodies

\* get_all_paginated_items on a listing that fits in one page.
Listing(o, items) ==
    LET data == cleanup_make_atlas_api_request(o, MkPage("envelope", items, FALSE)) IN
    IF data = NonePage \/ data.items = <<>> THEN <<>> ELSE data.items

\* delete_atlas_database_user, delete_atlas_project_user, delete_atlas_cluster
\* and delete_atlas_org_invitation: True exactly when make_atlas_api_request
\* returned None.
delete_atlas_org_invitation(o, body) == cleanup_make_atlas_api_request(o, body) = NonePage

\* "if username in ["__onprem_monitoring", "admin"]: continue"
system_users == {"__onprem_monitoring", "admin"}

IsNamed(item) == item # ""

IsDeletableUser_Any(username) == username # ""

IsDeletableUser(username) == username \notin system_users /\ username # ""

\* The DELETE requests for the items of a listing, in order.
Deletes(resource, project, items) ==
    [i \in 1..Len(items) |-> Call("DELETE", resource, project, items[i])]

\* One stage of the cleanup of a project: the listing is fetched and a DELETE
\* is issued for each of the items kept by the stage's filter.
Stage(resource, project, kept) ==
    api_log' = api_log \o << Call("GET", resource, project, "") >>
                       \o Deletes(resource, project, kept)

CleanupMain ==
    /\ script = "cleanup_aged_projects_and_clusters"
    /\ ConfirmPhrase("REAP PROJECTS OLDER THAN 90 DAYS", "get_atlas_projects")
    /\ UNCHANGED <<rqVars, fetchVars, inviteVars, provVars, cleanVars, clusterVars>>

\* get_atlas_projects up to the first page request.
CleanupEnter ==
    /\ script = "cleanup_aged_projects_and_clusters"
    /\ pc = "get_atlas_projects"
    /\ pc' = "get_all_paginated_items"
    /\ fetcher' = "get_all_paginated_items"
    /\ current_page' = 1
    /\ all_items' = <<>>
    /\ fpc' = "loop"
    /\ UNCHANGED <<org_id, confirm, ret, exit_status, loop_ran, runs>>
    /\ UNCHANGED <<pages, reqLog, faults, http_attempt, retry_arg>>
    /\ UNCHANGED <<rqVars, inviteVars, provVars, cleanVars, clusterVars>>

CleanupFetch ==
    /\ script = "cleanup_aged_projects_and_clusters"
    /\ pc = "get_all_paginated_items"
    /\ \E o \in GetOutcomes : get_all_paginated_items_pass(o)
    /\ Log(Call("GET", "groups", 0, ""))
    /\ UNCHANGED <<rqVars, scriptVars, inviteVars, provVars, reaperVars, cleanerVars,
                   clusterVars>>

\* "if not projects: return 1"
CleanupFetched ==
    /\ script = "cleanup_aged_projects_and_clusters"
    /\ pc = "get_all_paginated_items"
    /\ fpc = "returned"
    /\ IF all_items = <<>>
       THEN /\ exit_status' = 1
            /\ pc' = "exit"
            /\ UNCHANGED <<projects, project_pos>>
       ELSE /\ pc' = "get_atlas_org_invitations"
            /\ projects' = all_items
            /\ project_pos' = 1
            /\ UNCHANGED exit_status
    /\ UNCHANGED <<org_id, confirm, ret, loop_ran, runs>>
    /\ UNCHANGED <<script, clusters, cluster_pos, total_clusters_deleted,
                   total_clusters_paused, total_already_paused, total_failures>>
    /\ UNCHANGED <<rqVars, fetchVars, inviteVars, provVars, cleanVars>>

\* The invitations are fetched once, the counters are set to 0 and "for
\* project in projects" begins.
CleanupInvitationsFetch ==
    /\ script = "cleanup_aged_projects_and_clusters"
    /\ pc = "get_atlas_org_invitations"
    /\ \E o \in GetOutcomes, invitations \in InvitationLists :
          org_invitations' = Listing(o, invitations)
    /\ Log(Call("GET", "invitations", 0, ""))
    /\ total_processed' = 0
    /\ total_cleaned' = 0
    /\ total_errors' = 0
    /\ old_project_ids' = {}
    /\ loop_ran' = TRUE
    /\ pc' = "projects"
    /\ UNCHANGED <<org_id, confirm, ret, exit_status, runs>>
    /\ UNCHANGED <<successful_inv, failed_inv, cleanerVars>>
    /\ UNCHANGED <<rqVars, fetchVars, inviteVars, provVars, clusterVars>>

\* One project of the loop, up to the decision on its age. Comparing a
\* timestamp without offset with the threshold raises TypeError, which main
\* catches to return 1.
CleanupProject ==
    LET project == projects[project_pos]
        created == project.created IN
    /\ script = "cleanup_aged_projects_and_clusters"
    /\ pc = "projects"
    /\ project_pos <= Len(projects)
    /\ IF project.id = 0 \/ created.kind \in {"missing", "unparsable"}
       THEN /\ total_errors' = total_errors + 1
            /\ project_pos' = project_pos + 1
            /\ UNCHANGED <<pc, exit_status, total_processed, total_cleaned, old_project_ids>>
       ELSE /\ total_processed' = total_processed + 1
            /\ UNCHANGED total_errors
            /\ IF created.kind = "naive"
               THEN /\ exit_status' = 1
                    /\ pc' = "exit"
                    /\ UNCHANGED <<project_pos, total_cleaned, old_project_ids>>
               ELSE IF OlderThan(created, USER_DELETION_THRESHOLD)
               THEN /\ total_cleaned' = total_cleaned + 1
                    /\ old_project_ids' = old_project_ids \cup {project.id}
                    /\ pc' = "database_users"
                    /\ UNCHANGED <<project_pos, exit_status>>
               ELSE /\ project_pos' = project_pos + 1
                    /\ UNCHANGED <<pc, exit_status, total_cleaned, old_project_ids>>
    /\ UNCHANGED <<org_id, confirm, ret, loop_ran, runs>>
    /\ UNCHANGED <<script, projects, clusters, cluster_pos, total_clusters_deleted,
                   total_clusters_paused, total_already_paused, total_failures>>
    /\ UNCHANGED <<api_log, org_invitations, successful_inv, failed_inv, cleanerVars>>
    /\ UNCHANGED <<rqVars, fetchVars, inviteVars, provVars>>

\* "1. Delete Database Users" of a project older than 90 days.
CleanupDbUsers ==
    /\ script = "cleanup_aged_projects_and_clusters"
    /\ pc = "database_users"
    /\ \E o \in GetOutcomes, listing \in DbUserLists :
          Stage("databaseUsers", projects[project_pos].id,
                SelectSeq(Listing(o, listing), IsDeletableUser))
    /\ pc' = "project_users"
    /\ UNCHANGED <<org_id, confirm, ret, exit_status, loop_ran, runs>>
    /\ UNCHANGED <<rqVars, fetchVars, inviteVars, provVars, reaperVars, cleanerVars,
                   clusterVars>>

\* "2. Remove Atlas Users from Project", then the decision on the clusters.
CleanupProjectUsers ==
    LET project == projects[project_pos] IN
    /\ script = "cleanup_aged_projects_and_clusters"
    /\ pc = "project_users"
    /\ \E o \in GetOutcomes, listing \in ProjectUserLists :
          Stage("users", project.id, SelectSeq(Listing(o, listing), IsNamed))
    /\ IF OlderThan(project.created, CLUSTER_DELETION_THRESHOLD)
       THEN pc' = "clusters" /\ UNCHANGED project_pos
       ELSE pc' = "projects" /\ project_pos' = project_pos + 1
    /\ UNCHANGED <<org_id, confirm, ret, exit_status, loop_ran, runs>>
    /\ UNCHANGED <<script, projects, clusters, cluster_pos, total_clusters_deleted,
                   total_clusters_paused, total_already_paused, total_failures>>
    /\ UNCHANGED <<rqVars, fetchVars, inviteVars, provVars, reaperVars, cleanerVars>>

\* "3. Delete Clusters if project is older than 120 days"
CleanupClusters ==
    /\ script = "cleanup_aged_projects_and_clusters"
    /\ pc = "clusters"
    /\ \E o \in GetOutcomes, listing \in ClusterNameLists :
          Stage("clusters", projects[project_pos].id,
                SelectSeq(Listing(o, listing), IsNamed))
    /\ pc' = "projects"
    /\ project_pos' = project_pos + 1
    /\ UNCHANGED <<org_id, confirm, ret, exit_status, loop_ran, runs>>
    /\ UNCHANGED <<script, projects, clusters, cluster_pos, total_clusters_deleted,
                   total_clusters_paused, total_already_paused, total_failures>>
    /\ UNCHANGED <<rqVars, fetchVars, inviteVars, provVars, reaperVars, cleanerVars>>

\* What requests.request produced for the DELETEs of the invitations that have
\* an id, in the order of the invitations.
RECURSIVE AnswersToNamed(_, _)
AnswersToNamed(invitations, answers) ==
    IF invitations = <<>> THEN <<>>
    ELSE LET rest == AnswersToNamed(Tail(invitations), Tail(answers)) IN
         IF IsNamed(Head(invitations)) THEN << answers[1][1] >> \o rest ELSE rest

OldProjectsFound_Always == TRUE

\* "if old_project_ids" in main and "if not old_project_ids" in
\* delete_invitations_for_old_projects
OldProjectsFound == old_project_ids # {}

\* After the loop: delete_invitations_for_old_projects when an old project
\* was found, then "return 0 if total_errors == 0 else 1".
CleanupInvitations ==
    LET n == Len(org_invitations) IN
    /\ script = "cleanup_aged_projects_and_clusters"
    /\ pc = "projects"
    /\ project_pos > Len(projects)
    /\ IF OldProjectsFound
       THEN \E answers \in [1..n -> DeleteOutcomes] :
               LET deleted == { i \in 1..n :
                                  /\ IsNamed(org_invitations[i])
                                  /\ delete_atlas_org_invitation(answers[i][1], answers[i][2]) } IN
               /\ successful_inv' = Cardinality(deleted)
               /\ failed_inv' = n - Cardinality(deleted)
               /\ api_log' = api_log \o Deletes("invitations", 0,
                                                SelectSeq(org_invitations, IsNamed))
               /\ resps' = AnswersToNamed(org_invitations, answers)
       ELSE UNCHANGED <<successful_inv, failed_inv, api_log, resps>>
    /\ exit_status' = IF total_errors = 0 THEN 0 ELSE 1
    /\ pc' = "exit"
    /\ UNCHANGED <<org_id, confirm, ret, loop_ran, runs>>
    /\ UNCHANGED <<total_processed, total_cleaned, total_errors, old_project_ids,
                   org_invitations, cleanerVars>>
    /\ UNCHANGED <<rqpc, attempt, sleeps, result>>
    /\ UNCHANGED <<fetchVars, inviteVars, provVars, clusterVars>>

InitCleanup ==
    /\ NoRequest
    /\ NoInvite
    /\ NoProvision
    /\ NoClean
    /\ NoClusterRun
    /\ script = "cleanup_aged_projects_and_clusters"
    /\ fetcher = "none"
    /\ pages \in AgedOrgListings
    /\ current_page = 0
    /\ all_items = <<>>
    /\ fpc = "idle"
    /\ reqLog = <<>>
    /\ faults = 0
    /\ http_attempt = 0
    /\ retry_arg = 0
    /\ pc = "main"
    /\ org_id \in {"", "org"}
    /\ confirm = ""
    /\ ret = "unset"
    /\ exit_status = -1
    /\ loop_ran = FALSE
    /\ runs = 1

NextCleanup ==
    \/ CleanupMain
    \/ CleanupEnter
    \/ CleanupFetch
    \/ CleanupFetched
    \/ CleanupInvitationsFetch
    \/ CleanupProject
    \/ CleanupDbUsers
    \/ CleanupProjectUsers
    \/ CleanupClusters
    \/ CleanupInvitations

SpecCleanup == InitCleanup /\ [][NextCleanup]_vars

\* --- the two scripts that ask for a confirmation phrase before deleting

NextDeleteAll ==
    \/ DeleteAllMain
    \/ DeleteAllEnter
    \/ DeleteAllFetch
    \/ DeleteAllFetched
    \/ DeleteAllCluster
    \/ ProjectClusters
    \/ ClustersDone
    \/ ProjectsDone
    \/ ClusterMainReturn

InitConfirm == InitDeleteAll \/ InitCleanup

NextConfirm == NextDeleteAll \/ NextCleanup

SpecConfirm == InitConfirm /\ [][NextConfirm]_vars

\* --- AtlasAPI._make_request of the delete-empty script, called on its own
\* with any retry argument

\* What requests.get / post / delete produce: a 2xx answer with a JSON body
\* or with a body that is not JSON, an error status, or an exception.
MakeRequestOutcomes ==
    { MkResponse("response", 200, "absent", b) : b \in {"full", "not_json"} }
    \cup { MkResponse("response", st, "absent", "error") : st \in {404, 500} }
    \cup { MkResponse("RequestException", 0, "absent", "plain") }

\* response.json() on a body that is not JSON raises a JSONDecodeError, which
\* is a RequestException in some versions of requests and only a ValueError
\* in others.
DecodeErrors == {"RequestException", "ValueError"}

\* How a pass of the loop ends, and the pair returned if it returns.
Ending(act, value) == [act |-> act, value |-> value]

delete_empty_make_request_OneMore(o, attempt_, retry, decode_error) ==
    IF o.kind = "response" /\ ~RaisesForStatus(o.status) /\ o.body # "not_json"
    THEN Ending("return", MkResult(o.body, TRUE))
    ELSE IF o.kind = "response" /\ ~RaisesForStatus(o.status) /\ decode_error = "ValueError"
    THEN Ending("raise", MkResult("ValueError", FALSE))
    ELSE IF attempt_ <= retry
    THEN Ending("retry", MkResult("none", FALSE))
    ELSE Ending("return", MkResult("error", FALSE))

\* One pass of "for attempt in range(retry + 1)": raise_for_status, then
\* "return response.json(), True"; a RequestException leads to time.sleep(2)
\* and the next pass "if attempt < retry", else to "return {"error": ...}, False".
delete_empty_make_request(o, attempt_, retry, decode_error) ==
    IF o.kind = "response" /\ ~RaisesForStatus(o.status) /\ o.body # "not_json"
    THEN Ending("return", MkResult(o.body, TRUE))
    ELSE IF o.kind = "response" /\ ~RaisesForStatus(o.status) /\ decode_error = "ValueError"
    THEN Ending("raise", MkResult("ValueError", FALSE))
    ELSE IF attempt_ < retry
    THEN Ending("retry", MkResult("none", FALSE))
    ELSE Ending("return", MkResult("error", FALSE))

MakeRequestPass ==
    /\ pc = "_make_request"
    /\ rqpc = "try"
    /\ \E o \in MakeRequestOutcomes, decode_error \in DecodeErrors :
          LET d == delete_empty_make_request(o, attempt, retry_arg, decode_error) IN
          /\ resps' = Append(resps, o)
          /\ IF d.act = "retry"
             THEN /\ sleeps' = Append(sleeps, 2)
                  /\ attempt' = attempt + 1
                  /\ UNCHANGED <<rqpc, result>>
             ELSE /\ rqpc' = IF d.act = "raise" THEN "raised" ELSE "returned"
                  /\ result' = d.value
                  /\ UNCHANGED <<sleeps, attempt>>
    /\ UNCHANGED <<retry_arg, fetcher, pages, current_page, all_items, fpc, reqLog, faults,
                   http_attempt>>
    /\ UNCHANGED <<scriptVars, inviteVars, provVars, clusterVars, cleanVars>>

\* _make_request(method, endpoint, retry=n) was called.
InitMakeRequest ==
    /\ NoInvite
    /\ NoProvision
    /\ NoClean
    /\ NoClusters
    /\ fetcher = "none"
    /\ pages = <<>>
    /\ current_page = 0
    /\ all_items = <<>>
    /\ fpc = "idle"
    /\ reqLog = <<>>
    /\ faults = 0
    /\ http_attempt = 0
    /\ retry_arg \in 0..MaxRetry
    /\ rqpc = "try"
    /\ attempt = 0
    /\ sleeps = <<>>
    /\ resps = <<>>
    /\ result = Pending
    /\ pc = "_make_request"
    /\ org_id = "org"
    /\ confirm = ""
    /\ ret = "unset"
    /\ exit_status = -1
    /\ loop_ran = FALSE
    /\ runs = 1

NextMakeRequest == MakeRequestPass

SpecMakeRequest == InitMakeRequest /\ [][NextMakeRequest]_vars

\* --- the two scripts that protect some items from their mutating request

NextPause ==
    \/ PauseMain
    \/ PauseEnter
    \/ PauseCluster
    \/ ProjectClusters
    \/ ClustersDone
    \/ ProjectsDone
    \/ ClusterMainReturn

InitProtect == InitPause \/ InitCleanup

NextProtect == NextPause \/ NextCleanup

SpecProtect == InitProtect /\ [][NextProtect]_vars

\* ------------------------------------------------------------------------
\* delete_empty_projects_in_organization: AtlasEmptyProjectsCleaner
\* ------------------------------------------------------------------------

\* The i-th project of the organization: without "id", without clusters, or
\* with one cluster.
CleanerProjectsAt(i) ==
    { MkProject(0, <<>>), MkProject(i, <<>>), MkProject(i, <<"running">>) }

CleanerProjectLists ==
    UNION { { p \in [1..n -> UNION { CleanerProjectsAt(i) : i \in 1..n }] :
                \A i \in 1..n : p[i] \in CleanerProjectsAt(i) }
            : n \in 1..MaxProjects }

\* GET /orgs/{org_id}/groups: no project, the projects on one page, or a
\* bare array.
CleanerListings ==
    { << EmptyPage >> }
    \cup { << MkPage("envelope", p, FALSE) >> : p \in CleanerProjectLists }
    \cup { << MkPage("list", << MkProject(1, <<>>) >>, FALSE) >> }

\* An entry of deleted_projects and an entry of skipped_projects.
MkDeleted(id, deleted, reason) == [id |-> id, deleted |-> deleted, reason |-> reason]

MkSkipped(id, cluster_count) == [id |-> id, cluster_count |-> cluster_count]

\* The entry appended for an empty project under --dry-run.
DryRunRecord_AsSuccess(id) == MkDeleted(id, TRUE, "success")

DryRunRecord(id) == MkDeleted(id, FALSE, "dry_run")

\* "for project in projects" goes on with the next project.
NextProject ==
    /\ project_pos' = project_pos + 1
    /\ http_attempt' = 0
    /\ pc' = "projects"

\* The project is known to have cluster_count clusters.
Counted(project, cluster_count) ==
    IF cluster_count = 0
    THEN IF dry_run
         THEN /\ deleted_projects' = Append(deleted_projects, DryRunRecord(project.id))
              /\ NextProject
              /\ UNCHANGED skipped_projects
         ELSE /\ pc' = "delete_project"
              /\ http_attempt' = 0
              /\ UNCHANGED <<project_pos, deleted_projects, skipped_projects>>
    ELSE /\ skipped_projects' = Append(skipped_projects, MkSkipped(project.id, cluster_count))
         /\ NextProject
         /\ UNCHANGED deleted_projects

\* delete_empty_projects, one HTTP call of get_projects_in_org at a time.
CleanerFetch ==
    /\ script = "delete_empty_projects_in_organization"
    /\ pc = "get_projects_in_org"
    /\ \E o \in GetOutcomes : get_projects_in_org_pass(o)
    /\ Log(Call("GET", "groups", 0, ""))
    /\ UNCHANGED <<rqVars, scriptVars, inviteVars, provVars, reaperVars, cleanerVars,
                   clusterVars>>

\* "if not projects: return"; result.get on a bare array raises.
CleanerFetched ==
    /\ script = "delete_empty_projects_in_organization"
    /\ pc = "get_projects_in_org"
    /\ fpc \in {"returned", "raised"}
    /\ IF fpc = "raised"
       THEN pc' = "raised" /\ UNCHANGED <<projects, project_pos, loop_ran>>
       ELSE IF all_items = <<>>
       THEN pc' = "returned" /\ UNCHANGED <<projects, project_pos, loop_ran>>
       ELSE /\ projects' = all_items
            /\ project_pos' = 1
            /\ loop_ran' = TRUE
            /\ pc' = "projects"
    /\ UNCHANGED <<org_id, confirm, ret, exit_status, runs>>
    /\ UNCHANGED <<script, clusters, cluster_pos, total_clusters_deleted,
                   total_clusters_paused, total_already_paused, total_failures>>
    /\ UNCHANGED <<rqVars, fetchVars, inviteVars, provVars, cleanVars>>

\* A project without "id" is passed over.
CleanerNoId ==
    /\ script = "delete_empty_projects_in_organization"
    /\ pc = "projects"
    /\ project_pos <= Len(projects)
    /\ projects[project_pos].id = 0
    /\ NextProject
    /\ UNCHANGED <<retry_arg, fetcher, pages, current_page, all_items, fpc, reqLog, faults>>
    /\ UNCHANGED <<org_id, confirm, ret, exit_status, loop_ran, runs>>
    /\ UNCHANGED <<script, projects, clusters, cluster_pos, total_clusters_deleted,
                   total_clusters_paused, total_already_paused, total_failures>>
    /\ UNCHANGED <<rqVars, inviteVars, provVars, cleanVars>>

\* One HTTP call of get_clusters_in_project (_make_request with retry=2): a
\* failed call is re-issued twice, and after the third failure the project
\* is taken to have no clusters ("return []").
CleanerClusters ==
    LET project == projects[project_pos] IN
    /\ script = "delete_empty_projects_in_organization"
    /\ pc = "projects"
    /\ project_pos <= Len(projects)
    /\ project.id # 0
    /\ Log(Call("GET", "clusters", project.id, ""))
    /\ \E o \in GetOutcomes :
          IF Failed(o)
          THEN IF http_attempt < page_retry
               THEN /\ http_attempt' = http_attempt + 1
                    /\ UNCHANGED <<pc, project_pos, deleted_projects, skipped_projects>>
               ELSE Counted(project, 0)
          ELSE Counted(project, Len(project.clusters))
    /\ UNCHANGED <<retry_arg, fetcher, pages, current_page, all_items, fpc, reqLog, faults>>
    /\ UNCHANGED <<org_id, confirm, ret, exit_status, loop_ran, runs>>
    /\ UNCHANGED <<script, projects, clusters, cluster_pos, total_clusters_deleted,
                   total_clusters_paused, total_already_paused, total_failures>>
    /\ UNCHANGED <<rqVars, inviteVars, provVars, reaperVars, dry_run>>

\* One HTTP call of delete_project (_make_request with retry=2).
CleanerDelete ==
    LET project == projects[project_pos] IN
    /\ script = "delete_empty_projects_in_organization"
    /\ pc = "delete_project"
    /\ Log(Call("DELETE", "groups", project.id, ""))
    /\ \E o \in GetOutcomes :
          IF Failed(o)
          THEN IF http_attempt < page_retry
               THEN /\ http_attempt' = http_attempt + 1
                    /\ UNCHANGED <<pc, project_pos, deleted_projects>>
               ELSE /\ deleted_projects' =
                          Append(deleted_projects, MkDeleted(project.id, FALSE, "api_error"))
                    /\ NextProject
          ELSE /\ deleted_projects' =
                     Append(deleted_projects, MkDeleted(project.id, TRUE, "success"))
               /\ NextProject
    /\ UNCHANGED <<retry_arg, fetcher, pages, current_page, all_items, fpc, reqLog, faults>>
    /\ UNCHANGED <<org_id, confirm, ret, exit_status, loop_ran, runs>>
    /\ UNCHANGED <<script, projects, clusters, cluster_pos, total_clusters_deleted,
                   total_clusters_paused, total_already_paused, total_failures>>
    /\ UNCHANGED <<rqVars, inviteVars, provVars, reaperVars, dry_run, skipped_projects>>

\* "for project in projects" is over.
CleanerReturn ==
    /\ script = "delete_empty_projects_in_organization"
    /\ pc = "projects"
    /\ project_pos > Len(projects)
    /\ pc' = "returned"
    /\ UNCHANGED <<org_id, confirm, ret, exit_status, loop_ran, runs>>
    /\ UNCHANGED <<rqVars, fetchVars, inviteVars, provVars, cleanVars, clusterVars>>

\* delete_empty_projects(dry_run) is called on a new cleaner.
InitCleaner ==
    /\ NoRequest
    /\ NoInvite
    /\ NoProvision
    /\ NoClusterRun
    /\ script = "delete_empty_projects_in_organization"
    /\ fetcher = "get_projects_in_org"
    /\ pages \in CleanerListings
    /\ current_page = 1
    /\ all_items = <<>>
    /\ fpc = "loop"
    /\ reqLog = <<>>
    /\ faults = 0
    /\ http_attempt = 0
    /\ retry_arg = 0
    /\ pc = "get_projects_in_org"
    /\ org_id = "org"
    /\ confirm = ""
    /\ ret = "unset"
    /\ exit_status = -1
    /\ loop_ran = FALSE
    /\ runs = 1
    /\ api_log = <<>>
    /\ total_processed = 0
    /\ total_cleaned = 0
    /\ total_errors = 0
    /\ old_project_ids = {}
    /\ org_invitations = <<>>
    /\ successful_inv = 0
    /\ failed_inv = 0
    /\ dry_run \in BOOLEAN
    /\ deleted_projects = <<>>
    /\ skipped_projects = <<>>

NextCleaner ==
    \/ CleanerFetch
    \/ CleanerFetched
    \/ CleanerNoId
    \/ CleanerClusters
    \/ CleanerDelete
    \/ CleanerReturn

SpecCleaner == InitCleaner /\ [][NextCleaner]_vars

\* ------------------------------------------------------------------------
\* Properties of the invitation batch, under SpecInvite
\* ------------------------------------------------------------------------

IsConflict(r) == r.kind = "response" /\ r.status = 409

UnrecognizedConflict(r) == IsConflict(r) /\ r.body = "other_conflict"

HandledWhere(P(_)) == { i \in 1..Len(handled) : P(handled[i]) }

IsExisting(r) == r = ExistingUser

BatchReturned == pc = "returned" /\ loop_ran

\* C6: a 409 whose body is not a recognized "already exists" shape is a
\* failure: every invitation answered that way is counted in failed_invites
\* (so failed_invites is at least the number of such answers).
C6_UnrecognizedConflictFails ==
    Cardinality(HandledWhere(UnrecognizedConflict)) <= failed_invites

\* C7: a 409 ends make_atlas_api_request at once (it is the last answer of the
\* call and the value returned, no sleep follows it), it is counted in
\* successful_invites and not in failed_invites, and a run of the batch whose
\* invitations were all answered 409 returns True with failed_invites = 0, in
\* every run of the script.
C7_ConflictIsSuccess ==
    /\ \A i \in 1..Len(resps) :
          resps[i].status = 409 =>
             /\ i = Len(resps)
             /\ rqpc = "returned"
             /\ result = resps[i]
             /\ Len(sleeps) = i - 1
    /\ (pc \in {"loop", "post", "returned"} /\ loop_ran) =>
          /\ successful_invites >= Cardinality(HandledWhere(IsConflict))
          /\ failed_invites <= Len(handled) - Cardinality(HandledWhere(IsConflict))
    /\ (BatchReturned /\ HandledWhere(IsConflict) = 1..Len(handled)) =>
          /\ failed_invites = 0
          /\ successful_invites = Len(emails)
          /\ ret = "True"

\* A second run of the script in which both invitations were answered 409,
\* one of them with an unrecognized body.
C7_Witness ==
    /\ runs = 2
    /\ BatchReturned
    /\ Len(handled) = 2
    /\ HandledWhere(IsConflict) = {1, 2}
    /\ HandledWhere(UnrecognizedConflict) = {2}
    /\ ret = "True"

\* C9 as stated: after the batch, successful_invites + failed_invites +
\* skipped_existing is the number of input emails.
C9_ThreeCountersPartition_AsStated ==
    BatchReturned =>
       successful_invites + failed_invites + skipped_existing = Len(emails)

\* C9: every input email is counted in exactly one of successful_invites and
\* failed_invites (after the batch their sum is the number of input emails);
\* skipped_existing counts, a second time, the emails that were already users
\* of the organization, each of which is in successful_invites too.
C9_CountersCoverEmails ==
    /\ (pc \in {"loop", "post", "returned"} /\ loop_ran) =>
          /\ successful_invites + failed_invites = Len(handled)
          /\ skipped_existing = Cardinality(HandledWhere(IsExisting))
          /\ skipped_existing <= successful_invites
    /\ BatchReturned =>
          /\ Len(handled) = Len(emails)
          /\ successful_invites + failed_invites = Len(emails)

\* A finished batch with an invalid address and an existing user.
C9_Witness ==
    /\ BatchReturned
    /\ Len(emails) = 2
    /\ skipped_existing = 1
    /\ failed_invites = 1
    /\ successful_invites = 1

\* ------------------------------------------------------------------------
\* Properties of the three scripts' results, under SpecMain
\* ------------------------------------------------------------------------

\* The failure counter of the running script's batch function.
Failures ==
    IF script = "invite_users_to_organization" THEN failed_invites ELSE total_failures

\* main's prompt was answered with what the running script asks for.
Confirmed ==
    confirm = CASE script = "invite_users_to_organization" -> "y"
                [] script = "delete_all_clusters_in_organization" -> "DELETE ALL CLUSTERS"
                [] OTHER -> "PAUSE ALL CLUSTERS"

C8_ExistingProjectIsSuccess ==
    [][ (ppc = "create_project" /\ rqpc = "returned"
            /\ result.body = "GROUP_ALREADY_EXISTS")
         => /\ operation_results'.failed = operation_results.failed
            /\ operation_results'.failed_emails = operation_results.failed_emails ]_vars

\* ------------------------------------------------------------------------
\* Properties of the paginated fetchers, under SpecFetch
\* ------------------------------------------------------------------------

RECURSIVE Flatten(_)
Flatten(ps) == IF ps = <<>> THEN <<>> ELSE ps[1].items \o Flatten(Tail(ps))

\* Every request was answered, every page is an envelope, and every page but
\* the last carries a "next" link.
WellServed ==
    /\ faults = 0
    /\ Len(pages) <= max_pages
    /\ \A i \in 1..Len(pages) :
          /\ pages[i].shape = "envelope"
          /\ (pages[i].next <=> i < Len(pages))

\* C1 as stated: N items over P pages, every page but the last with a "next"
\* link: pageNum 1..P are requested once each and exactly the N items come
\* back in order, however the items are distributed over the pages.
C1_AllItemsInOrder_AsStated ==
    (fpc = "returned" /\ WellServed)
      => /\ all_items = Flatten(pages)
         /\ reqLog = [i \in 1..Len(pages) |-> i]

\* C1 (amended): the same, for the distributions in which no page before the
\* last is empty (a fetcher stops at the first empty page).
C1_AllItemsInOrder ==
    ( /\ fpc # "loop"
      /\ WellServed
      /\ \A i \in 1..(Len(pages) - 1) : pages[i].items # <<>> )
      => /\ fpc = "returned"
         /\ all_items = Flatten(pages)
         /\ reqLog = [i \in 1..Len(pages) |-> i]

C1_Witness ==
    /\ fpc = "returned"
    /\ WellServed
    /\ Len(pages) = 3
    /\ pages[1].items = <<1>> /\ pages[2].items = <<2, 3>> /\ pages[3].items = <<>>
    /\ all_items = <<1, 2, 3>>
    /\ reqLog = <<1, 2, 3>>

\* ------------------------------------------------------------------------
\* Properties of get_existing_org_users (SpecInvite)
\* ------------------------------------------------------------------------

\* The call for the current page of users came back with a 2xx response.
PageAnswered(response) == response.kind = "response" /\ Is2xx(response.status)

\* C11: when the request for page k of the organization's users fails,
\* get_existing_org_users stops there: it raises nothing, requests no further
\* page and hands the users of pages 1..k-1, as collected so far, to the loop
\* over the emails.
C11_StopsAtFailedPage ==
    [][ ( /\ pc = "get_existing_org_users"
          /\ rqpc = "returned"
          /\ ~PageAnswered(result) )
        => /\ pc' = "loop"
           /\ existing_users' = existing_users
           /\ reqLog' = reqLog ]_vars

\* ------------------------------------------------------------------------
\* Properties of the four paginated fetchers (SpecFetchers)
\* ------------------------------------------------------------------------

\* The page numbers 1..n in order.
UpTo(n) == [i \in 1..n |-> i]

\* n copies of the page the endless listing serves, end to end.
RECURSIVE Copies(_, _)
Copies(n, items) == IF n = 0 THEN <<>> ELSE items \o Copies(n - 1, items)

\* C12: against a listing that answers every request with a non-empty page
\* and a "next" link, each of the four fetchers requests the pages 1, 2, ...
\* in order and never a page beyond the 100th, returns only once it has made
\* exactly 100 requests, and returns the items of 100 pages at most.
C12_StopsAtMaxPages ==
    (IsEndless(pages) /\ fetcher # "none")
      => /\ Len(reqLog) <= 100
         /\ reqLog = UpTo(Len(reqLog))
         /\ fpc \in {"loop", "returned"}
         /\ fpc = "returned" => Len(reqLog) = 100
         /\ fetcher \in Fetchers
               => /\ Len(reqLog) = 100 => fpc = "returned"
                  /\ all_items = Copies(Len(reqLog), pages[1].items)
         /\ (fetcher = "get_existing_org_users" /\ Len(reqLog) > 1)
               => existing_users = UsernamesOf(pages[1].items)

C12_Witness ==
    /\ IsEndless(pages)
    /\ fetcher = "get_existing_org_users"
    /\ pc = "loop"
    /\ fpc = "returned"
    /\ reqLog = UpTo(100)

\* C13: a first page that is a bare JSON array is the final and only page of
\* get_all_paginated_items: when every request was answered, exactly one
\* request was made and all the items of the array were returned.
C13_BareArrayIsOnlyPage ==
    ( /\ fetcher = "get_all_paginated_items"
      /\ fpc = "returned"
      /\ faults = 0
      /\ pages[1].shape = "list" )
      => /\ reqLog = <<1>>
         /\ all_items = pages[1].items

\* ------------------------------------------------------------------------
\* The request wrappers never raise (SpecRequest)
\* ------------------------------------------------------------------------

\* C14: whatever the status, the headers and the body of the answers, and on
\* a connection error, make_atlas_api_request ends by returning a value: no
\* exception leaves it.
C14_NeverRaises ==
    rqpc = "returned" => result # RaisedValue

\* ------------------------------------------------------------------------
\* A failing item does not abort the batch (SpecInvite)
\* ------------------------------------------------------------------------

\* C15: once invite_users_to_org has entered its loop over the emails, no
\* exception leaves it: whatever happens to one email, the loop goes on with
\* the next one and the function returns normally.
C15_BatchNeverAborts ==
    (script = "invite_users_to_organization" /\ loop_ran) => pc # "raised"

\* ------------------------------------------------------------------------
\* Confirmation before any request (SpecConfirm)
\* ------------------------------------------------------------------------

\* The phrase the running script asks for.
ConfirmationPhrase ==
    IF script = "delete_all_clusters_in_organization"
    THEN "DELETE ALL CLUSTERS"
    ELSE "REAP PROJECTS OLDER THAN 90 DAYS"

\* C16: in the cleanup and delete-all-clusters scripts, when what was typed
\* at the prompt is not exactly the confirmation phrase, main returns 0
\* without having issued any request; and whenever a request has been
\* issued, the phrase had been typed exactly.
C16_NoRequestBeforeConfirmation ==
    /\ (api_log # <<>> \/ reqLog # <<>>) => confirm = ConfirmationPhrase
    /\ (pc = "exit" /\ org_id # "" /\ confirm # ConfirmationPhrase)
          => /\ exit_status = 0
             /\ api_log = <<>>
             /\ reqLog = <<>>

C16_Witness ==
    /\ script = "cleanup_aged_projects_and_clusters"
    /\ pc = "exit"
    /\ confirm = "REAP PROJECTS OLDER THAN 90 DAYS "
    /\ exit_status = 0
    /\ api_log = <<>>

\* ------------------------------------------------------------------------
\* Properties of AtlasEmptyProjectsCleaner.delete_empty_projects (SpecCleaner)
\* ------------------------------------------------------------------------

\* The projects the loop is done with.
Processed == { i \in 1..Len(projects) : i < project_pos /\ projects[i].id # 0 }

DeleteCalls == { k \in 1..Len(api_log) : api_log[k].method = "DELETE" }

\* C17: a DELETE is issued for a project only if the project has no cluster,
\* and a project with at least one cluster, once processed, is recorded in
\* skipped_projects and not in deleted_projects, whatever the cluster-listing
\* requests were answered.
C17_DeletesOnlyEmptyProjects ==
    /\ \A k \in DeleteCalls :
          \E i \in 1..Len(projects) :
             projects[i].id = api_log[k].project /\ projects[i].clusters = <<>>
    /\ \A i \in Processed :
          projects[i].clusters # <<>>
             => /\ \E k \in 1..Len(skipped_projects) :
                      skipped_projects[k].id = projects[i].id
                /\ \A k \in 1..Len(deleted_projects) :
                      deleted_projects[k].id # projects[i].id

\* C18: with dry_run=True no DELETE is issued, every entry of
\* deleted_projects is {deleted: False, reason: "dry_run"}, and every
\* processed project without clusters has such an entry.
C18_DryRunDeletesNothing ==
    dry_run
      => /\ DeleteCalls = {}
         /\ \A k \in 1..Len(deleted_projects) :
               deleted_projects[k] = MkDeleted(deleted_projects[k].id, FALSE, "dry_run")
         /\ \A i \in Processed :
               projects[i].clusters = <<>>
                  => \E k \in 1..Len(deleted_projects) :
                        deleted_projects[k] = MkDeleted(projects[i].id, FALSE, "dry_run")

C18_Witness ==
    /\ dry_run
    /\ pc = "returned"
    /\ Len(projects) = 2
    /\ Len(deleted_projects) = 2
    /\ faults = 0
    /\ Len(api_log) = 3

\* ------------------------------------------------------------------------
\* Properties of the cleanup script's main (SpecCleanup)
\* ------------------------------------------------------------------------

\* The requests of the log that change something.
Mutating == { k \in 1..Len(api_log) : api_log[k].method # "GET" }

\* The project is this many days old at least, by a timestamp main can read.
KnownOlderThan(project, days) ==
    project.created.kind = "aware" /\ project.created.age > days

\* C19: a project gets DELETE requests for its database users and its Atlas
\* users only if it was created more than 90 days before the run started,
\* and for its clusters only if more than 120 days before; a project that is
\* not older than 90 days gets no mutating request at all.
C19_OnlyAgedProjectsAreCleaned ==
    \A k \in Mutating :
       LET call == api_log[k] IN
       /\ call.method = "DELETE"
       /\ call.project # 0
             => /\ call.resource \in {"databaseUsers", "users", "clusters"}
                /\ KnownOlderThan(projects[call.project], 90)
                /\ call.resource = "clusters"
                      => KnownOlderThan(projects[call.project], 120)

C19_Witness ==
    /\ script = "cleanup_aged_projects_and_clusters"
    /\ pc = "exit"
    /\ Len(projects) = 2
    /\ projects[1].created = MkCreated("aware", 91)
    /\ projects[2].created = MkCreated("aware", 121)
    /\ \E k \in Mutating : api_log[k] = Call("DELETE", "databaseUsers", 1, "app")
    /\ \E k \in Mutating : api_log[k] = Call("DELETE", "users", 1, "u7")
    /\ \E k \in Mutating : api_log[k] = Call("DELETE", "clusters", 2, "c1")
    /\ \A k \in Mutating : api_log[k] # Call("DELETE", "clusters", 1, "c1")

\* ------------------------------------------------------------------------
\* Accepted deletions (SpecMain)
\* ------------------------------------------------------------------------

\* C20: when the DELETE of a cluster is answered 200, 202 or 204,
\* delete_all_clusters_in_org adds one to total_clusters_deleted and leaves
\* total_failures as it is.
C20_AcceptedDeleteIsSuccess ==
    [][ ( /\ script = "delete_all_clusters_in_organization"
          /\ Len(api_log') = Len(api_log) + 1
          /\ api_log'[Len(api_log')].method = "DELETE"
          /\ result'.kind = "response"
          /\ result'.status \in {200, 202, 204} )
        => /\ total_clusters_deleted' = total_clusters_deleted + 1
           /\ total_failures' = total_failures ]_vars

\* ------------------------------------------------------------------------
\* Failed deletions of invitations (SpecCleanup)
\* ------------------------------------------------------------------------

FailedAnswers == { i \in 1..Len(resps) : Failed(resps[i]) }

\* C21: a DELETE that fails (error status or connection error) makes the
\* delete helper return a falsy value, so delete_invitations_for_old_projects
\* counts that invitation as failed and not as successful: the number of
\* successful deletions is at most the number of DELETEs that did not fail.
C21_FailedDeleteIsCountedFailed ==
    (script = "cleanup_aged_projects_and_clusters" /\ pc = "exit" /\ old_project_ids # {})
        => /\ successful_inv <= Len(resps) - Cardinality(FailedAnswers)
           /\ failed_inv >= Cardinality(FailedAnswers)

\* ------------------------------------------------------------------------
\* Protected items (SpecProtect)
\* ------------------------------------------------------------------------

\* No PATCH addresses a cluster that is already paused and no DELETE addresses
\* a system database user.
NoProtectedMutation ==
    \A i \in 1..Len(api_log) :
        /\ api_log[i].method = "PATCH" => api_log[i].item # "paused"
        /\ (api_log[i].method = "DELETE" /\ api_log[i].resource = "databaseUsers")
              => api_log[i].item \notin {"__onprem_monitoring", "admin"}

\* The step of pause_all_clusters_in_org on a cluster whose paused flag is true.
OnPausedCluster ==
    /\ script = "pause_all_clusters_in_organization"
    /\ pc = "clusters"
    /\ cluster_pos <= Len(clusters)
    /\ cluster_pos' = cluster_pos + 1
    /\ clusters[cluster_pos] = "paused"

\* C22: items excluded by a script's protection predicate never receive a
\* mutating request and are never counted as failures: an already paused
\* cluster gets no PATCH and is counted in total_already_paused, and the
\* database users "__onprem_monitoring" and "admin" get no DELETE.
C22_ProtectedItemsAreNotMutated ==
    /\ []NoProtectedMutation
    /\ [][ OnPausedCluster
             => /\ api_log' = api_log
                /\ total_already_paused' = total_already_paused + 1
                /\ total_failures' = total_failures
                /\ total_clusters_paused' = total_clusters_paused ]_vars

\* A run of the pause script that met a paused cluster has ended.
C22_Witness ==
    /\ script = "pause_all_clusters_in_organization"
    /\ total_already_paused > 0
    /\ pc = "exit"

\* ------------------------------------------------------------------------
\* Rate-limit delays of the invitation batch (SpecInvite)
\* ------------------------------------------------------------------------

\* POST, delay, POST, ..., POST: every delay lies between two requests.
DelaysOnlyBetweenRequests(evs) ==
    \A i \in 1..Len(evs) :
        evs[i] = (IF i % 2 = 1 THEN "POST" ELSE "delay")

\* C23: invite_users_to_org sleeps between every two consecutive invitation
\* POSTs and not after the last one: when it returns after n requests there
\* were exactly n-1 delays, each strictly between two requests.
C23_DelaysBetweenRequests ==
    (script = "invite_users_to_organization" /\ pc = "returned" /\ loop_ran /\ events # <<>>)
        => /\ DelaysOnlyBetweenRequests(events)
           /\ Len(events) % 2 = 1

\* ------------------------------------------------------------------------
\* The ownership file (SpecTracker)
\* ------------------------------------------------------------------------

\* The file holds exactly the in-memory mapping.
FileHoldsMap ==
    ownership_file.state = "json" /\ ownership_file.map = ownership_map

\* A call that changed the mapping.
Mutation ==
    \/ tracker_call'.op = "add_project"
    \/ tracker_call'.op = "remove_project" /\ tracker_call'.returned = "True"

\* C24: after every add_project and remove_project the file holds exactly the
\* in-memory mapping, so that a tracker constructed afterwards loads the same
\* mapping; add_project(e, id) makes get_project_id(e) = id; remove_project of
\* a known email makes it None and returns True; remove_project of an unknown
\* email returns False and changes neither the mapping nor the file.
C24_FileIsRewrittenAfterEveryMutation ==
    [][ (ppc = "tracker" /\ tracker_calls' = tracker_calls + 1)
        => LET call == tracker_call' IN
           /\ Mutation => /\ FileHoldsMap'
                          /\ _load_mapping(ownership_file') = ownership_map'
           /\ call.op = "add_project"
                 => get_project_id(ownership_map', call.email) = call.id
           /\ call.op = "remove_project"
                 => IF Known(ownership_map, call.email)
                    THEN /\ call.returned = "True"
                         /\ get_project_id(ownership_map', call.email) = 0
                    ELSE /\ call.returned = "False"
                         /\ UNCHANGED <<ownership_map, ownership_file>> ]_vars

\* ------------------------------------------------------------------------
\* Client errors of AtlasAPI._make_request (SpecProvision)
\* ------------------------------------------------------------------------

\* A pass of the loop of _make_request in which the API answered 404.
Answered404 ==
    /\ ppc \in CallSites
    /\ rqpc = "try"
    /\ resps' # <<>>
    /\ resps'[1].kind = "response"
    /\ resps'[1].status = 404

\* C25: a 4xx answer other than 409 and 429, such as 404, is terminal for
\* _make_request: the call returns failure at once, without sleeping and
\* without issuing the request again, whatever the retry argument.
C25_ClientErrorIsTerminal ==
    [][ Answered404
        => /\ rqpc' = "returned"
           /\ ~result'.success
           /\ sleeps' = sleeps
           /\ attempt' = attempt ]_vars

\* ------------------------------------------------------------------------
\* Attempts of AtlasAPI._make_request, delete-empty script (SpecMakeRequest)
\* ------------------------------------------------------------------------

\* An attempt that succeeded: a 2xx answer with a JSON body.
Succeeded(o) == o.kind = "response" /\ ~RaisesForStatus(o.status) /\ o.body # "not_json"

\* C26: _make_request(retry=n) issues at most n+1 HTTP calls whatever the
\* outcomes; it returns (body, True) at the first successful attempt without
\* a further call; it sleeps 2 seconds only between a failed attempt and the
\* next one, never after the last; and it returns ({"error": ...}, False)
\* only after n+1 failed attempts.
C26_AtMostRetryPlusOneCalls ==
    pc = "_make_request"
        => /\ Len(resps) <= retry_arg + 1
           /\ \A i \in 1..(Len(resps) - 1) : ~Succeeded(resps[i])
           /\ \A i \in 1..Len(sleeps) : sleeps[i] = 2
           /\ rqpc = "try" => Len(sleeps) = Len(resps)
           /\ rqpc # "try" => Len(sleeps) = Len(resps) - 1
           /\ (resps # <<>> /\ Succeeded(resps[Len(resps)]))
                 => (rqpc = "returned" /\ result.success /\ result.body = resps[Len(resps)].body)
           /\ (rqpc = "returned" /\ ~result.success)
                 => /\ Len(resps) = retry_arg + 1
                    /\ \A i \in 1..Len(resps) : ~Succeeded(resps[i])
                    /\ result.body = "error"

\* A call with retry=2 gave up after its third failed attempt.
C26_Witness ==
    /\ pc = "_make_request"
    /\ retry_arg = 2
    /\ rqpc = "returned"
    /\ ~result.success
    /\ Len(resps) = 3
    /\ sleeps = <<2, 2>>

\* ------------------------------------------------------------------------
\* Deletion of tracked projects (SpecDeleteProjects)
\* ------------------------------------------------------------------------

\* The DELETE of the project was answered with a 2xx status.
DeleteAnswered2xx ==
    /\ resps # <<>>
    /\ resps[1].kind = "response"
    /\ IsSuccess(resps[1].status)

\* C27: _delete_project_for_email removes the mapping of an email only after
\* the DELETE of its project succeeded; when the deletion fails the mapping is
\* kept, delete_projects.failed grows by one and the email is appended to
\* failed_emails; an email without a tracked project causes no request and
\* changes no counter.
C27_MappingRemovedOnlyAfterDelete ==
    [][ /\ ownership_map' # ownership_map
            => /\ ppc = "delete_project"
               /\ rqpc = "returned"
               /\ DeleteAnswered2xx
               /\ ownership_map' = [ownership_map EXCEPT ![unique_emails[email_pos]] = 0]
               /\ delete_results' = [delete_results EXCEPT !.success = @ + 1]
        /\ (ppc = "delete_project" /\ ppc' = "delete_email" /\ ~DeleteAnswered2xx)
            => /\ ownership_map' = ownership_map
               /\ ownership_file' = ownership_file
               /\ delete_results' =
                     [delete_results EXCEPT !.failed = @ + 1,
                                            !.failed_emails = Append(@, unique_emails[email_pos])]
        /\ ( /\ ppc = "delete_email"
             /\ email_pos <= Len(unique_emails)
             /\ ownership_map[unique_emails[email_pos]] = 0 )
            => /\ total_requests' = total_requests
               /\ rqpc' = rqpc
               /\ delete_results' = delete_results
               /\ ownership_map' = ownership_map ]_vars

\* A run ended in which one deletion succeeded and one failed.
C27_Witness ==
    /\ ppc = "returned"
    /\ delete_results.success = 1
    /\ delete_results.failed = 1
    /\ \E e \in ProvEmails : ownership_map[e] # 0

\* ------------------------------------------------------------------------
\* Deletion of the pending invitations (SpecCleanup)
\* ------------------------------------------------------------------------

IsInvitationDelete(call) == call.method = "DELETE" /\ call.resource = "invitations"

HasId(invitation) == invitation # ""

\* The DELETEs of invitations issued so far, in order.
InvitationDeletes == SelectSeq(api_log, IsInvitationDelete)

\* The loop over the projects of the cleanup main has ended normally.
ProjectsProcessed ==
    /\ script = "cleanup_aged_projects_and_clusters"
    /\ pc = "exit"
    /\ loop_ran
    /\ project_pos > Len(projects)

\* C28: the invitations are deleted only after every project was processed
\* and only if a project older than 90 days was found; then every pending
\* invitation that has an id gets exactly one DELETE, an invitation without
\* id gets none and is counted as failed, and successful + failed is the
\* number of invitations.
C28_InvitationsDeletedAfterProjects ==
    script = "cleanup_aged_projects_and_clusters"
        => LET named == SelectSeq(org_invitations, HasId) IN
           /\ InvitationDeletes # <<>> => (ProjectsProcessed /\ old_project_ids # {})
           /\ \A i \in 1..Len(api_log) : \A j \in (i + 1)..Len(api_log) :
                 IsInvitationDelete(api_log[i]) => IsInvitationDelete(api_log[j])
           /\ (ProjectsProcessed /\ old_project_ids # {})
                 => /\ InvitationDeletes =
                          [k \in 1..Len(named) |-> Call("DELETE", "invitations", 0, named[k])]
                    /\ successful_inv + failed_inv = Len(org_invitations)
                    /\ failed_inv >= Len(org_invitations) - Len(named)

\* Of two pending invitations the one with an id was deleted and the one
\* without was counted as failed.
C28_Witness ==
    /\ ProjectsProcessed
    /\ old_project_ids # {}
    /\ org_invitations = <<"i5", "">>
    /\ Len(InvitationDeletes) = 1
    /\ successful_inv = 1
    /\ failed_inv = 1

\* ------------------------------------------------------------------------
\* One outcome per email (SpecProvision)
\* ------------------------------------------------------------------------

DistinctEmails == { emails[i] : i \in 1..Len(emails) }

\* provision_for_emails has ended, by returning or by an exception.
ProvisionEnded == ppc \in {"returned", "raised"}

\* C29: provision_for_emails processes each distinct email exactly once and
\* each lands in exactly one outcome: after the call provision.success +
\* provision.failed is the number of distinct input emails and failed_emails
\* holds exactly the emails counted as failed, whatever the API answers and
\* the exceptions.
C29_OneOutcomePerEmail ==
    ProvisionEnded
        => /\ operation_results.success + operation_results.failed
                 = Cardinality(DistinctEmails)
           /\ Len(operation_results.failed_emails) = operation_results.failed
           /\ \A i, j \in 1..Len(operation_results.failed_emails) :
                 i # j => operation_results.failed_emails[i] # operation_results.failed_emails[j]
           /\ \A i \in 1..Len(operation_results.failed_emails) :
                 operation_results.failed_emails[i] \in DistinctEmails

\* ------------------------------------------------------------------------
\* Request accounting of the provisioning AtlasAPI (SpecProvision)
\* ------------------------------------------------------------------------

\* C30: each call of _make_request adds one to total_requests and records
\* exactly one outcome, one increment of successful_requests or one entry of
\* failed_requests: whenever no call is running, successful_requests +
\* len(failed_requests) = total_requests.
C30_OneOutcomePerRequest ==
    (ppc \in CallSites \cup {"email", "returned"} /\ rqpc # "try")
        => successful_requests + failed_requests = total_requests

====
